---- MODULE Spec2Model ----
(***************************************************************************)
(* Model of @entrolytics/redis-client: the sliding-window rate limiter     *)
(* (src/src/rate-limit.ts) and the cache client                            *)
(* (src/src/EntrolyticsRedisClient.ts).                                    *)
(*                                                                         *)
(* Time is the integer second Math.floor(Date.now() / 1000).  The store's  *)
(* sorted set is kept as the sequence of the scores of its members: every  *)
(* zAdd of rateLimit carries a member `${now}:${Math.random()}`, which the *)
(* model takes to be a new member on every call.                           *)
(***************************************************************************)
EXTENDS Integers, Sequences, FiniteSets, TLC

\* ------------------------------------------------------------------ bounds
MaxTime == 2      \* the clock runs over 0..MaxTime
MaxCalls == 4     \* calls of rateLimit in one behaviour
MaxFetches == 2   \* fetch calls counted in stats in one behaviour
MaxCounter == 2   \* a counter stays within -MaxCounter..MaxCounter
MaxAttempts == 3  \* calls of this._client.connect() in one behaviour

\* ------------------------------------------------------------------ inputs
Identifiers == {"u1"}

\* RateLimitConfig values the calls draw from (bucket, limit, window).
Configs ==
    { [bucket |-> "a", limit |-> 2, window |-> 2],
      [bucket |-> "b", limit |-> 1, window |-> 1] }

CACHE_PREFIX == "entrolytics:"

NullClient == "null"
TheClient == "client"
Clients == {NullClient, TheClient}

\* Concurrent callers of rateLimit (processes sharing the one store).
Callers == {"p1", "p2"}
Idle == [busy |-> FALSE, identifier |-> "", config |-> [bucket |-> "", limit |-> 0, window |-> 0], now |-> 0]

VARIABLES
    clock,            \* Math.floor(Date.now() / 1000)
    isConnected,      \* EntrolyticsRedisClient._isConnected
    zsets,            \* store: sorted-set key -> scores of its members
    zexpire,          \* store: sorted-set key -> second its EXPIRE falls in, or -1
    rateLimitStore,   \* the module-level Map<string, number[]>
    last,             \* the last rateLimit call and what it returned
    admitted,         \* history: (mode, key) -> timestamps of the calls that succeeded
    ncalls,           \* history: number of rateLimit calls made
    burst,            \* history: the run of back-to-back calls for one fresh key in one mode
    inflight,         \* concurrent callers: caller -> its rateLimit call in flight, or Idle
    isConnecting,     \* EntrolyticsRedisClient._isConnecting
    connectPromise,   \* EntrolyticsRedisClient._connectPromise: "null" or the promise's state
    defaultTTL,       \* EntrolyticsRedisClient.defaultTTL
    kv,               \* store: string key -> [exists, data, expireAt]
    stats,            \* EntrolyticsRedisClient.stats: [hits, misses]
    ret,              \* the last call on the cache client and how it ended
    tombstone,        \* history: key -> the soft delete in force for it, if any
    attempt,          \* promise of this._client.connect() -> "none", "pending", "resolved", "rejected"
    conncall,         \* concurrent callers: caller -> its connect() call
    disc,             \* the disconnect() call: "idle", or "await" at this._client.disconnect()
    simple,           \* the last call of the simple counter limiter and the window it fell in
    prefix,           \* EntrolyticsRedisClient.prefix, character by character
    keyspace,         \* store: the keys that exist, each character by character
    scan,             \* the invalidatePattern call: its position, cursor side and count
    tally,            \* history: fetch calls that found / did not find the key, since the last reset
    shadow,           \* history: the Map and the last result of the local tracker had no sweep ever run
    lread             \* the last call that read the Map: key, now, window and what it returned

limitVars ==
    <<clock, isConnected, zsets, zexpire, rateLimitStore, last, admitted, ncalls, burst>>

concVars == <<inflight>>

connVars == <<attempt, conncall, disc>>

\* State that only the specifications further down move.
scanVars == <<prefix, keyspace, scan>>

localVars == <<shadow, lread>>

auxVars == <<connVars, simple, scanVars, localVars>>

cacheVars == <<isConnecting, connectPromise, defaultTTL, kv, stats, tally, ret, tombstone, auxVars>>

vars == <<limitVars, concVars, cacheVars>>

\* ------------------------------------------------------------------ keys
\* `ratelimit:${config.bucket}:${identifier}`
RateLimitKey(config, identifier) == <<"ratelimit", config.bucket, identifier>>

\* `${client.prefix}${key}`
prefixKey(key) == <<CACHE_PREFIX>> \o key

LimitKeys == {RateLimitKey(c, i) : c \in Configs, i \in Identifiers}
ZKeys == {prefixKey(k) : k \in LimitKeys}

\* ------------------------------------------------------------------ local tracker
\* The filter keeping the threshold itself: ts >= threshold.
FilterNewerOrEqual(timestamps, threshold) == SelectSeq(timestamps, LAMBDA ts : ts >= threshold)

\* timestamps.filter((ts) => ts > threshold)
FilterNewer(timestamps, threshold) == SelectSeq(timestamps, LAMBDA ts : ts > threshold)

\* rateLimitStore.get(key) || []
MapGetOrEmpty(store, key) == IF key \in DOMAIN store THEN store[key] ELSE <<>>

\* rateLimitStore.set(key, value)
MapSet(store, key, value) ==
    [k \in (DOMAIN store) \cup {key} |-> IF k = key THEN value ELSE store[k]]

cleanupRateLimitStore(store, threshold) ==
    LET kept == {k \in DOMAIN store : FilterNewer(store[k], threshold) # <<>>}
    IN  [k \in kept |-> FilterNewer(store[k], threshold)]

\* inMemoryRateLimit reporting `remaining` from the length before the push.
inMemoryRateLimitStaleRemaining(store, key, config, now, windowStart, sweep) ==
    LET timestamps == FilterNewer(MapGetOrEmpty(store, key), windowStart)
    IN  IF Len(timestamps) >= config.limit
        THEN [store |-> MapSet(store, key, timestamps),
              result |-> [success |-> FALSE, limit |-> config.limit,
                          remaining |-> 0, reset |-> now + config.window]]
        ELSE LET set == MapSet(store, key, Append(timestamps, now))
             IN  [store |-> IF sweep THEN cleanupRateLimitStore(set, windowStart) ELSE set,
                  result |-> [success |-> TRUE, limit |-> config.limit,
                              remaining |-> config.limit - Len(timestamps),
                              reset |-> now + config.window]]

\* The result record and the Map after the call.  sweep is Math.random() < 0.01.
inMemoryRateLimit(store, key, config, now, windowStart, sweep) ==
    LET timestamps == FilterNewer(MapGetOrEmpty(store, key), windowStart)
    IN  IF Len(timestamps) >= config.limit
        THEN [store |-> MapSet(store, key, timestamps),
              result |-> [success |-> FALSE, limit |-> config.limit,
                          remaining |-> 0, reset |-> now + config.window]]
        ELSE LET pushed == Append(timestamps, now)
                 set == MapSet(store, key, pushed)
             IN  [store |-> IF sweep THEN cleanupRateLimitStore(set, windowStart) ELSE set,
                  result |-> [success |-> TRUE, limit |-> config.limit,
                              remaining |-> config.limit - Len(pushed),
                              reset |-> now + config.window]]

\* ------------------------------------------------------------------ distributed limiter
\* ZREMRANGEBYSCORE key 0 max on the scores of one sorted set
zRemRangeByScore(scores, max) == SelectSeq(scores, LAMBDA s : ~(0 <= s /\ s <= max))

\* The MULTI ... EXEC of rateLimit on one sorted set: the scores after it, the
\* expiry after it and the reply of ZCARD (results[1]).
multiExec(scores, now, windowStart, window) ==
    LET purged == zRemRangeByScore(scores, windowStart)
    IN  [scores |-> Append(purged, now),
         expire |-> now + window,
         count  |-> Len(purged)]

\* redisDecision rejecting only when count > limit.
redisDecisionOffByOne(count, config, now) ==
    LET remaining == IF config.limit - count - 1 > 0 THEN config.limit - count - 1 ELSE 0
        reset == now + config.window
    IN  IF count > config.limit
        THEN [success |-> FALSE, limit |-> config.limit, remaining |-> 0, reset |-> reset]
        ELSE [success |-> TRUE, limit |-> config.limit, remaining |-> remaining, reset |-> reset]

\* The decision taken from the ZCARD reply.
redisDecision(count, config, now) ==
    LET remaining == IF config.limit - count - 1 > 0 THEN config.limit - count - 1 ELSE 0
        reset == now + config.window
    IN  IF count >= config.limit
        THEN [success |-> FALSE, limit |-> config.limit, remaining |-> 0, reset |-> reset]
        ELSE [success |-> TRUE, limit |-> config.limit, remaining |-> remaining, reset |-> reset]

\* ------------------------------------------------------------------ cache client: values
\* JavaScript values, tagged by type.
Null == <<"null">>
Undefined == <<"undefined">>
Str(s) == <<"str", s>>
Num(n) == <<"num", n>>
Bool(b) == <<"bool", b>>

DELETED == "__DELETED__"

CacheKeys == {<<"user:1">>}
KvKeys == {prefixKey(k) : k \in CacheKeys}

\* `ratelimit:${key}`, the counter of the simple limiter
SimpleKey(key) == <<"ratelimit", key>>
SimpleKvKeys == {prefixKey(SimpleKey(i)) : i \in Identifiers}

\* The string keys of the store.
StoreKeys == KvKeys \cup SimpleKvKeys

\* Decimal text of the integers a counter takes in the model.
Numerals == <<"0", "1", "2", "3", "4", "5", "6">>
NegNumerals == <<"-1", "-2", "-3", "-4", "-5", "-6">>
IntText(n) == IF n >= 0 THEN Numerals[n + 1] ELSE NegNumerals[-n]
IntRange == (-Len(NegNumerals))..(Len(Numerals) - 1)

\* JSON.stringify / JSON.parse on the values the model stores: a value and its
\* JSON text.  A string is stored in quotes; null and numbers are stored bare.
JSONTable ==
    { <<Str("v1"), "\"v1\"">>, <<Str(DELETED), "\"__DELETED__\"">>, <<Null, "null">> }

IsIntText(text) == \E n \in IntRange : IntText(n) = text
TextInt(text) == CHOOSE n \in IntRange : IntText(n) = text

JSONstringify(value) ==
    IF value[1] = "num" THEN IntText(value[2])
    ELSE (CHOOSE e \in JSONTable : e[1] = value)[2]

\* [ok, value]: ok is FALSE where JSON.parse throws.
JSONparse(text) ==
    IF \E e \in JSONTable : e[2] = text
    THEN [ok |-> TRUE, value |-> (CHOOSE e \in JSONTable : e[2] = text)[1]]
    ELSE IF IsIntText(text)
         THEN [ok |-> TRUE, value |-> Num(TextInt(text))]
         ELSE [ok |-> FALSE, value |-> Undefined]

\* TTLOption values: undefined, a number of seconds, or { EX }, { PX }.
TTLUndefined == [kind |-> "undefined", n |-> 0]
TTLNumber(n) == [kind |-> "number", n |-> n]
TTLEx(n) == [kind |-> "EX", n |-> n]
TTLPx(ms) == [kind |-> "PX", n |-> ms]

\* Math.ceil(a / b) for a >= 0, b > 0
CeilDiv(a, b) == (a + b - 1) \div b

\* extractTTL: seconds, or -1 for undefined.  Seconds are >= 0 in the model.
extractTTL(ttl) ==
    CASE ttl.kind = "undefined" -> -1
      [] ttl.kind = "number" -> ttl.n
      [] ttl.kind = "EX" -> ttl.n
      [] ttl.kind = "PX" -> CeilDiv(ttl.n, 1000)

\* ------------------------------------------------------------------ cache client: store commands
NoEntry == [exists |-> FALSE, data |-> "", expireAt |-> -1]

\* GET: the string, or null
cmdGet(store, pk) == IF store[pk].exists THEN Str(store[pk].data) ELSE Null

\* SETEX key seconds value, executed in second `now`
cmdSetEx(store, pk, seconds, text, now) ==
    [store EXCEPT ![pk] = [exists |-> TRUE, data |-> text, expireAt |-> now + seconds]]

\* SET key value (drops any expiry)
cmdSet(store, pk, text) ==
    [store EXCEPT ![pk] = [exists |-> TRUE, data |-> text, expireAt |-> -1]]

\* DEL key
cmdDel(store, pk) == [store EXCEPT ![pk] = NoEntry]

\* ------------------------------------------------------------------ cache client: connect
Conn(c, g, p) == [isConnected |-> c, isConnecting |-> g, connectPromise |-> p]

\* connect() swallowing the failure of the attempt.
connectNeverThrows(conn, connOk) ==
    IF conn.isConnected \/ connOk
    THEN [conn |-> Conn(TRUE, FALSE, IF conn.isConnected THEN conn.connectPromise ELSE "resolved"),
          threw |-> FALSE]
    ELSE [conn |-> Conn(FALSE, FALSE, "null"), threw |-> FALSE]

\* connect(), run to completion.  connOk: the attempt (this._client.connect(), a new
\* one or the one in flight) resolves.  [conn, threw]
connect(conn, connOk) ==
    IF conn.isConnected
    THEN [conn |-> conn, threw |-> FALSE]
    ELSE IF connOk
         THEN [conn |-> Conn(TRUE, FALSE, "resolved"), threw |-> FALSE]
         ELSE [conn |-> Conn(conn.isConnected, FALSE, "null"), threw |-> TRUE]

\* ------------------------------------------------------------------ cache client: handlers
\* What a call leaves behind: the store, the connection fields, whether the
\* promise it returned rejected (raised, with err naming the source), its value.
Outcome(store, conn, raised, err, value) ==
    [store |-> store, conn |-> conn, raised |-> raised, err |-> err, value |-> value]

\* get(key): connect and the GET are awaited inside try; every failure is caught.
get(store, conn, key, connOk, cmdRejects) ==
    LET c == connect(conn, connOk)
        data == cmdGet(store, prefixKey(key))
    IN  IF c.threw \/ cmdRejects
        THEN Outcome(store, c.conn, FALSE, "none", Null)
        ELSE IF data = Null
             THEN Outcome(store, c.conn, FALSE, "none", Null)
             ELSE LET parsed == JSONparse(data[2])
                  IN  Outcome(store, c.conn, FALSE, "none",
                              IF parsed.ok THEN parsed.value ELSE data)

\* set(key, value, ttl): connect is awaited inside try; the promise of SETEX / SET
\* is returned without await, so its rejection is the rejection of set's promise.
set(store, conn, key, value, ttl, dTTL, now, connOk, cmdRejects) ==
    LET c == connect(conn, connOk)
        serialized == JSONstringify(value)
        prefixedKey == prefixKey(key)
        ttlSeconds == IF extractTTL(ttl) # -1 THEN extractTTL(ttl) ELSE dTTL
    IN  IF c.threw
        THEN Outcome(store, c.conn, FALSE, "none", Null)
        ELSE IF cmdRejects
             THEN Outcome(store, c.conn, TRUE, "store", Undefined)
             ELSE IF ttlSeconds > 0
                  THEN Outcome(cmdSetEx(store, prefixedKey, ttlSeconds, serialized, now),
                               c.conn, FALSE, "none", Str("OK"))
                  ELSE Outcome(cmdSet(store, prefixedKey, serialized),
                               c.conn, FALSE, "none", Str("OK"))

\* del(key): as set, the promise of DEL is returned without await.
del(store, conn, key, connOk, cmdRejects) ==
    LET c == connect(conn, connOk)
        prefixedKey == prefixKey(key)
    IN  IF c.threw
        THEN Outcome(store, c.conn, FALSE, "none", Num(0))
        ELSE IF cmdRejects
             THEN Outcome(store, c.conn, TRUE, "store", Undefined)
             ELSE Outcome(cmdDel(store, prefixedKey), c.conn, FALSE, "none",
                          Num(IF store[prefixedKey].exists THEN 1 ELSE 0))

\* store(key, data, ttl)
store(st, conn, key, data, ttl, dTTL, now, connOk, cmdRejects) ==
    set(st, conn, key, data, ttl, dTTL, now, connOk, cmdRejects)

\* remove(key, soft)
remove(st, conn, key, soft, dTTL, now, connOk, cmdRejects) ==
    IF soft
    THEN set(st, conn, key, Str(DELETED), TTLUndefined, dTTL, now, connOk, cmdRejects)
    ELSE del(st, conn, key, connOk, cmdRejects)

\* ------------------------------------------------------------------ cache client: counters, expiry, ping
\* INCRBY key amount: [ok, store, reply]; the store refuses a value that is not
\* the text of an integer.  DECRBY is INCRBY of the negated amount.
cmdIncrBy(st, pk, amount) ==
    IF ~st[pk].exists
    THEN [ok |-> TRUE, reply |-> amount,
          store |-> [st EXCEPT ![pk] = [exists |-> TRUE, data |-> IntText(amount),
                                        expireAt |-> -1]]]
    ELSE IF IsIntText(st[pk].data)
         THEN LET n == TextInt(st[pk].data) + amount
              IN  [ok |-> TRUE, reply |-> n,
                   store |-> [st EXCEPT ![pk].data = IntText(n)]]
         ELSE [ok |-> FALSE, reply |-> 0, store |-> st]

\* EXPIRE key seconds in second `now`: [store, reply]
cmdExpire(st, pk, seconds, now) ==
    IF ~st[pk].exists THEN [store |-> st, reply |-> 0]
    ELSE IF seconds <= 0 THEN [store |-> [st EXCEPT ![pk] = NoEntry], reply |-> 1]
         ELSE [store |-> [st EXCEPT ![pk].expireAt = now + seconds], reply |-> 1]

\* EXISTS key
cmdExists(st, pk) == IF st[pk].exists THEN 1 ELSE 0

\* incrBy(key, amount): the promise of INCRBY is returned without await.
incrBy(st, conn, key, amount, connOk, cmdRejects) ==
    LET c == connect(conn, connOk)
        r == cmdIncrBy(st, prefixKey(key), amount)
    IN  IF c.threw
        THEN Outcome(st, c.conn, FALSE, "none", Num(0))
        ELSE IF cmdRejects \/ ~r.ok
             THEN Outcome(st, c.conn, TRUE, "store", Undefined)
             ELSE Outcome(r.store, c.conn, FALSE, "none", Num(r.reply))

\* incr(key): INCR, returned without await.
incr(st, conn, key, connOk, cmdRejects) == incrBy(st, conn, key, 1, connOk, cmdRejects)

\* decrBy(key, amount): DECRBY, returned without await.
decrBy(st, conn, key, amount, connOk, cmdRejects) ==
    incrBy(st, conn, key, -amount, connOk, cmdRejects)

\* decr(key): DECR, returned without await.
decr(st, conn, key, connOk, cmdRejects) == incrBy(st, conn, key, -1, connOk, cmdRejects)

\* expire(key, seconds): EXPIRE is awaited inside try; result === 1.
expire(st, conn, key, seconds, now, connOk, cmdRejects) ==
    LET c == connect(conn, connOk)
        r == cmdExpire(st, prefixKey(key), seconds, now)
    IN  IF c.threw \/ cmdRejects
        THEN Outcome(st, c.conn, FALSE, "none", Bool(FALSE))
        ELSE Outcome(r.store, c.conn, FALSE, "none", Bool(r.reply = 1))

\* exists(key): EXISTS is awaited inside try; result === 1.
exists(st, conn, key, connOk, cmdRejects) ==
    LET c == connect(conn, connOk)
    IN  IF c.threw \/ cmdRejects
        THEN Outcome(st, c.conn, FALSE, "none", Bool(FALSE))
        ELSE Outcome(st, c.conn, FALSE, "none", Bool(cmdExists(st, prefixKey(key)) = 1))

\* ping(): no try; a failed connect and a rejected PING both reach the caller.
ping(st, conn, connOk, cmdRejects) ==
    LET c == connect(conn, connOk)
    IN  IF c.threw
        THEN Outcome(st, c.conn, TRUE, "connect", Undefined)
        ELSE IF cmdRejects
             THEN Outcome(st, c.conn, TRUE, "store", Undefined)
             ELSE Outcome(st, c.conn, FALSE, "none", Str("PONG"))

\* connect(), as a call of its own.
connectCall(st, conn, connOk) ==
    LET c == connect(conn, connOk)
    IN  Outcome(st, c.conn, c.threw, IF c.threw THEN "connect" ELSE "none", Undefined)

\* What the caller's query function does: absent, throws, or returns data.
NoQuery == [kind |-> "none", data |-> Undefined]
QueryThrows == [kind |-> "throws", data |-> Undefined]
QueryReturns(data) == [kind |-> "returns", data |-> data]

\* fetchCached without the tombstone test: the sentinel is a value like any other.
fetchCachedNoTombstone(result) ==
    IF result # Null THEN [found |-> TRUE, value |-> result]
    ELSE [found |-> FALSE, value |-> Null]

\* fetchCached finding nothing, whatever get returned.
fetchCachedAlwaysMiss(result) == [found |-> FALSE, value |-> Null]

\* fetch, the part that looks at what get returned: the tombstone and any other
\* non-null value are found in the cache.
fetchCached(result) ==
    IF result = Str(DELETED) THEN [found |-> TRUE, value |-> Null]
    ELSE IF result # Null THEN [found |-> TRUE, value |-> result]
    ELSE [found |-> FALSE, value |-> Null]

\* fetchQuery catching the query's error and answering null.
fetchQuerySwallows(st, conn, key, query, ttl, dTTL, now, connOk, cmdRejects) ==
    IF query.kind \in {"none", "throws"}
    THEN Outcome(st, conn, FALSE, "none", Null)
    ELSE IF query.data # Null /\ query.data # Undefined
         THEN LET w == set(st, conn, key, query.data, ttl, dTTL, now, connOk, cmdRejects)
              IN  IF w.raised
                  THEN Outcome(w.store, w.conn, TRUE, w.err, Undefined)
                  ELSE Outcome(w.store, w.conn, FALSE, "none", query.data)
         ELSE Outcome(st, conn, FALSE, "none", query.data)

\* fetch, the part after the miss was counted: run the query, store its data.
fetchQuery(st, conn, key, query, ttl, dTTL, now, connOk, cmdRejects) ==
    IF query.kind = "none"
    THEN Outcome(st, conn, FALSE, "none", Null)
    ELSE IF query.kind = "throws"
         THEN Outcome(st, conn, TRUE, "compute", Undefined)
         ELSE IF query.data # Null /\ query.data # Undefined
              THEN LET w == store(st, conn, key, query.data, ttl, dTTL, now, connOk, cmdRejects)
                   IN  IF w.raised
                       THEN Outcome(w.store, w.conn, TRUE, w.err, Undefined)
                       ELSE Outcome(w.store, w.conn, FALSE, "none", query.data)
              ELSE Outcome(st, conn, FALSE, "none", query.data)

\* fetch counting a hit as a hit and a miss as well.
fetchCountsBoth(st, conn, counters, key, query, ttl, dTTL, now, connOk, getRejects, connOk2, setRejects) ==
    LET g == get(st, conn, key, connOk, getRejects)
        c == fetchCached(g.value)
    IN  IF c.found
        THEN [out |-> Outcome(g.store, g.conn, FALSE, "none", c.value),
              stats |-> [counters EXCEPT !.hits = @ + 1, !.misses = @ + 1],
              computed |-> FALSE]
        ELSE [out |-> fetchQuery(g.store, g.conn, key, query, ttl, dTTL, now, connOk2, setRejects),
              stats |-> [counters EXCEPT !.misses = @ + 1],
              computed |-> query.kind # "none"]

\* fetch(key, query, ttl): [out, stats, computed].  connOk / getRejects are the
\* outcomes inside get, connOk2 / setRejects those inside store.
fetch(st, conn, counters, key, query, ttl, dTTL, now, connOk, getRejects, connOk2, setRejects) ==
    LET g == get(st, conn, key, connOk, getRejects)
        c == fetchCached(g.value)
    IN  IF c.found
        THEN [out |-> Outcome(g.store, g.conn, FALSE, "none", c.value),
              stats |-> [counters EXCEPT !.hits = @ + 1],
              computed |-> FALSE]
        ELSE [out |-> fetchQuery(g.store, g.conn, key, query, ttl, dTTL, now, connOk2, setRejects),
              stats |-> [counters EXCEPT !.misses = @ + 1],
              computed |-> query.kind # "none"]

\* ------------------------------------------------------------------ initial state
NoResult == [success |-> FALSE, limit |-> 0, remaining |-> 0, reset |-> 0]

NoCall ==
    [op |-> "none", identifier |-> "", config |-> [bucket |-> "", limit |-> 0, window |-> 0],
     now |-> 0, mode |-> "none", useRedis |-> FALSE, txFailed |-> FALSE, raised |-> FALSE,
     result |-> NoResult]

NoBurst == [active |-> FALSE, key |-> <<>>, mode |-> "none", n |-> 0, first |-> 0]

Modes == {"redis", "memory"}

DefaultTTLs == {0, 2}

NoRet ==
    [op |-> "none", key |-> <<>>, raised |-> FALSE, err |-> "none", value |-> Undefined,
     connFailed |-> FALSE, cmdFailed |-> FALSE, readOk |-> FALSE,
     counted |-> "none", computed |-> FALSE, query |-> NoQuery, tomb |-> "none"]

NoTombstone == [set |-> FALSE, until |-> -1]

\* The store and the clock at the start.
InitStore ==
    /\ clock = 0
    /\ zsets = [k \in ZKeys |-> <<>>]
    /\ zexpire = [k \in ZKeys |-> -1]
    /\ kv = [k \in StoreKeys |-> NoEntry]

\* The client after its constructor has run.
InitClient ==
    /\ isConnected = FALSE
    /\ isConnecting = FALSE
    /\ connectPromise = "null"
    /\ stats = [hits |-> 0, misses |-> 0]
    /\ tally = [h |-> 0, m |-> 0]
    /\ ret = NoRet
    /\ tombstone = [k \in CacheKeys |-> NoTombstone]

\* The rate limiter's module state, and the histories kept about its calls.
InitLimiter ==
    /\ rateLimitStore = <<>>
    /\ last = NoCall
    /\ admitted = [m \in Modes |-> [k \in LimitKeys |-> <<>>]]
    /\ ncalls = 0
    /\ burst = NoBurst
    /\ inflight = [p \in Callers |-> Idle]

\* No connect() or disconnect() call is in flight.
PromiseNames == <<"P1", "P2", "P3", "P4", "P5", "P6">>
PromiseIds == {PromiseNames[i] : i \in 1..MaxAttempts}

NoConnCall ==
    [pc |-> "idle", awaits |-> "null", started |-> FALSE, sawPending |-> "null",
     sawConnected |-> FALSE, outcome |-> "none"]

InitConnCalls ==
    /\ attempt = [id \in PromiseIds |-> "none"]
    /\ conncall = [p \in Callers |-> NoConnCall]
    /\ disc = "idle"

NoSimple ==
    [op |-> "none", mode |-> "none", limit |-> 0, window |-> 0, now |-> 0,
     limited |-> FALSE, raised |-> FALSE, value |-> 0, expireSet |-> FALSE,
     failed |-> "none", n |-> 0, clean |-> TRUE]

\* Strings that are matched against a glob pattern are kept as the sequence of
\* their characters.
NsPlain == <<"n", "s", ":">>                     \* prefix 'ns:'
NsBracket == <<"[", "n", "s", "]", ":">>         \* prefix '[ns]:'
User1 == <<"u", "s", "e", "r", ":", "1">>
User2 == <<"u", "s", "e", "r", ":", "2">>
Order1 == <<"o", "r", "d", "e", "r", ":", "1">>

NoScan ==
    [pc |-> "idle", op |-> "none", pattern |-> <<>>, todo |-> {}, deletedCount |-> 0,
     start |-> {}, ret |-> 0, failed |-> FALSE, rounds |-> 0]

InitScanIdle ==
    /\ prefix = NsPlain
    /\ keyspace = {}
    /\ scan = NoScan

NoRead ==
    [op |-> "none", key |-> <<>>, now |-> 0, window |-> 0, success |-> FALSE,
     remaining |-> 0, dropped |-> 0]

InitLocal ==
    /\ shadow = [store |-> <<>>, result |-> NoResult, swept |-> FALSE]
    /\ lread = NoRead

InitAux == InitConnCalls /\ simple = NoSimple /\ InitScanIdle /\ InitLocal

InitLimit == InitStore /\ InitClient /\ InitLimiter /\ InitAux /\ defaultTTL = 0

\* ------------------------------------------------------------------ rateLimit
\* rateLimitOutcome without the catch: a rejected exec rejects the call.
rateLimitOutcomeNoCatch(useRedis, txFails, count, memResult, config, now) ==
    IF useRedis /\ txFails
    THEN [mode |-> "memory", raised |-> TRUE, result |-> NoResult]
    ELSE IF useRedis
         THEN [mode |-> "redis", raised |-> FALSE, result |-> redisDecision(count, config, now)]
         ELSE [mode |-> "memory", raised |-> FALSE, result |-> memResult]

\* The control flow of rateLimit around the transaction: the store decides when
\* client?.isConnected holds and multi.exec() resolves; a rejected exec is caught
\* and logged, and the call falls through to the local tracker.
rateLimitOutcome(useRedis, txFails, count, memResult, config, now) ==
    IF useRedis /\ ~txFails
    THEN [mode |-> "redis", raised |-> FALSE, result |-> redisDecision(count, config, now)]
    ELSE [mode |-> "memory", raised |-> FALSE, result |-> memResult]

\* The key has no state in the store that decides in `mode`.
Fresh(mode, key) ==
    IF mode = "redis" THEN zsets[prefixKey(key)] = <<>>
    ELSE MapGetOrEmpty(rateLimitStore, key) = <<>>

\* One call of rateLimit(client, identifier, config).  txFails: multi.exec()
\* rejects; txApplied: the store had executed the transaction when it did.
rateLimit(client, identifier, config, txFails, txApplied, sweep) ==
    LET key == RateLimitKey(config, identifier)
        now == clock
        windowStart == now - config.window
        prefixedKey == prefixKey(key)
        useRedis == client # NullClient /\ isConnected
    IN  /\ ncalls < MaxCalls
        /\ txFails => useRedis
        /\ txApplied => txFails
        /\ \E tx \in {multiExec(zsets[prefixedKey], now, windowStart, config.window)},
              mem \in {inMemoryRateLimit(rateLimitStore, key, config, now, windowStart, sweep)} :
           \E out \in {rateLimitOutcome(useRedis, txFails, tx.count, mem.result, config, now)} :
              /\ sweep => (out.mode = "memory" /\ mem.result.success)
              /\ IF useRedis /\ (~txFails \/ txApplied)
                 THEN /\ zsets' = [zsets EXCEPT ![prefixedKey] = tx.scores]
                      /\ zexpire' = [zexpire EXCEPT ![prefixedKey] = tx.expire]
                 ELSE UNCHANGED <<zsets, zexpire>>
              /\ rateLimitStore' = IF out.mode = "memory" /\ ~out.raised
                                   THEN mem.store ELSE rateLimitStore
              /\ last' = [op |-> "rateLimit", identifier |-> identifier,
                          config |-> config, now |-> now, mode |-> out.mode,
                          useRedis |-> useRedis, txFailed |-> txFails, raised |-> out.raised,
                          result |-> IF out.raised THEN NoResult ELSE out.result]
              /\ admitted' = IF ~out.raised /\ out.result.success
                             THEN [admitted EXCEPT ![out.mode][key] = Append(@, now)]
                             ELSE admitted
              /\ burst' = IF /\ burst.active /\ burst.key = key /\ burst.mode = out.mode
                             /\ now < burst.first + config.window
                          THEN [burst EXCEPT !.n = @ + 1]
                          ELSE IF Fresh(out.mode, key)
                               THEN [active |-> TRUE, key |-> key, mode |-> out.mode,
                                     n |-> 1, first |-> now]
                               ELSE NoBurst
        /\ ncalls' = ncalls + 1
        /\ UNCHANGED <<clock, isConnected, concVars, cacheVars>>

RateLimitCall ==
    \E client \in Clients, identifier \in Identifiers, config \in Configs,
       txFails \in BOOLEAN, txApplied \in BOOLEAN, sweep \in BOOLEAN :
        rateLimit(client, identifier, config, txFails, txApplied, sweep)

\* ------------------------------------------------------------------ environment
\* One second passes.  A key whose EXPIRE fell in an earlier second is gone.
Tick ==
    /\ clock < MaxTime
    /\ clock' = clock + 1
    /\ zsets' = [k \in ZKeys |->
                    IF zexpire[k] # -1 /\ zexpire[k] < clock + 1 THEN <<>> ELSE zsets[k]]
    /\ zexpire' = [k \in ZKeys |->
                    IF zexpire[k] # -1 /\ zexpire[k] < clock + 1 THEN -1 ELSE zexpire[k]]
    /\ kv' = [k \in StoreKeys |->
                    IF kv[k].expireAt # -1 /\ kv[k].expireAt < clock + 1 THEN NoEntry ELSE kv[k]]
    /\ UNCHANGED <<isConnected, rateLimitStore, last, admitted, ncalls, burst, concVars,
                   isConnecting, connectPromise, defaultTTL, stats, tally, ret, tombstone, auxVars>>

\* The store drops a key whose EXPIRE falls in the current second.
ExpireKey ==
    \E k \in ZKeys :
        /\ zexpire[k] = clock
        /\ zsets' = [zsets EXCEPT ![k] = <<>>]
        /\ zexpire' = [zexpire EXCEPT ![k] = -1]
        /\ UNCHANGED <<clock, isConnected, rateLimitStore, last, admitted, ncalls, burst, concVars, cacheVars>>

\* client.on('ready', ...)
OnReady ==
    /\ ~isConnected
    /\ isConnected' = TRUE
    /\ UNCHANGED <<clock, zsets, zexpire, rateLimitStore, last, admitted, ncalls, burst, concVars, cacheVars>>

\* client.on('end', ...)
OnEnd ==
    /\ isConnected
    /\ isConnected' = FALSE
    /\ UNCHANGED <<clock, zsets, zexpire, rateLimitStore, last, admitted, ncalls, burst, concVars, cacheVars>>

NextLimit == RateLimitCall \/ Tick \/ ExpireKey \/ OnReady \/ OnEnd

SpecLimit == InitLimit /\ [][NextLimit]_vars

\* ------------------------------------------------------------------ concurrent callers
\* Several callers run rateLimit against one store through connected clients.
\* A caller reads the clock and queues the four commands (Begin); the store then
\* executes the queued MULTI ... EXEC as one step and the caller takes the reply
\* (Exec).  Calls in flight reach the store in any order.
InitConc == InitStore /\ InitClient /\ InitLimiter /\ InitAux /\ defaultTTL = 0

\* rateLimit up to multi.exec(): key, now and windowStart are fixed here.
Begin(p, identifier, config) ==
    /\ isConnected
    /\ ~inflight[p].busy
    /\ ncalls < MaxCalls
    /\ inflight' = [inflight EXCEPT ![p] =
                      [busy |-> TRUE, identifier |-> identifier, config |-> config,
                       now |-> clock]]
    /\ ncalls' = ncalls + 1
    /\ UNCHANGED <<clock, isConnected, zsets, zexpire, rateLimitStore, last, admitted, burst, cacheVars>>

\* The store executes the transaction of p; p decides from the reply and returns.
Exec(p) ==
    LET call == inflight[p]
        key == RateLimitKey(call.config, call.identifier)
        prefixedKey == prefixKey(key)
        tx == multiExec(zsets[prefixedKey], call.now, call.now - call.config.window,
                        call.config.window)
        out == rateLimitOutcome(TRUE, FALSE, tx.count, NoResult, call.config, call.now)
    IN  /\ call.busy
        /\ zsets' = [zsets EXCEPT ![prefixedKey] = tx.scores]
        /\ zexpire' = [zexpire EXCEPT ![prefixedKey] = clock + call.config.window]
        /\ last' = [op |-> "rateLimit", identifier |-> call.identifier,
                    config |-> call.config, now |-> call.now, mode |-> out.mode,
                    useRedis |-> TRUE, txFailed |-> FALSE, raised |-> out.raised,
                    result |-> out.result]
        /\ admitted' = IF out.result.success
                       THEN [admitted EXCEPT ![out.mode][key] = Append(@, call.now)]
                       ELSE admitted
        /\ inflight' = [inflight EXCEPT ![p] = Idle]
        /\ UNCHANGED <<clock, isConnected, rateLimitStore, ncalls, burst, cacheVars>>

BeginCall == \E p \in Callers, identifier \in Identifiers, config \in Configs :
                Begin(p, identifier, config)
ExecCall == \E p \in Callers : Exec(p)

NextConc == BeginCall \/ ExecCall \/ Tick \/ ExpireKey \/ OnReady

SpecConc == InitConc /\ [][NextConc]_vars

\* ------------------------------------------------------------------ cache client: calls
limiterState ==
    <<zsets, zexpire, rateLimitStore, last, admitted, ncalls, burst, inflight, auxVars>>

SetValues == {Str("v1"), Str(DELETED)}
TTLOptions == {TTLUndefined, TTLNumber(1)}
FetchTTLs == {TTLUndefined, TTLNumber(1)}     \* fetch takes ttl?: number
Queries == {NoQuery, QueryThrows, QueryReturns(Str("v1")), QueryReturns(Null)}

TheConn == Conn(isConnected, isConnecting, connectPromise)

\* The soft delete in force for key: "none", "live" (its tombstone has not run
\* out of time to live) or "lapsed".
TombState(key) ==
    IF ~tombstone[key].set THEN "none"
    ELSE IF tombstone[key].until = -1 \/ clock < tombstone[key].until THEN "live"
         ELSE "lapsed"

\* Leave the outcome of a call in the client and the store.
Settle(out) ==
    /\ kv' = out.store
    /\ isConnected' = out.conn.isConnected
    /\ isConnecting' = out.conn.isConnecting
    /\ connectPromise' = out.conn.connectPromise

\* The record of a call that neither looks up nor computes.
Ret(op, key, out, connOk, cmdRejects) ==
    [op |-> op, key |-> key, raised |-> out.raised, err |-> out.err,
     value |-> out.value,
     connFailed |-> (~isConnected /\ ~connOk),
     cmdFailed |-> ((isConnected \/ connOk) /\ cmdRejects),
     readOk |-> FALSE, counted |-> "none", computed |-> FALSE, query |-> NoQuery,
     tomb |-> "none"]

\* The key's entry was written or deleted by the call.
Overwritten(key, out) == out.store[prefixKey(key)] # kv[prefixKey(key)]

\* An outcome that a call never consults is fixed (connOk at TRUE, a rejection at
\* FALSE), so that one call is one transition.
ConnectConsulted == ~isConnected

Get(key, connOk, cmdRejects) ==
    \E out \in {get(kv, TheConn, key, connOk, cmdRejects)} :
        /\ ~ConnectConsulted => connOk
        /\ cmdRejects => (isConnected \/ connOk)
        /\ Settle(out)
        /\ ret' = [Ret("get", key, out, connOk, cmdRejects) EXCEPT
                      !.readOk = (isConnected \/ connOk) /\ ~cmdRejects,
                      !.tomb = TombState(key)]
        /\ UNCHANGED <<clock, defaultTTL, stats, tally, tombstone, limiterState>>

Set(key, value, ttl, connOk, cmdRejects) ==
    \E out \in {set(kv, TheConn, key, value, ttl, defaultTTL, clock, connOk, cmdRejects)} :
        /\ ~ConnectConsulted => connOk
        /\ cmdRejects => (isConnected \/ connOk)
        /\ Settle(out)
        /\ ret' = Ret("set", key, out, connOk, cmdRejects)
        /\ tombstone' = IF Overwritten(key, out)
                        THEN [tombstone EXCEPT ![key] = NoTombstone] ELSE tombstone
        /\ UNCHANGED <<clock, defaultTTL, stats, tally, limiterState>>

Del(key, connOk, cmdRejects) ==
    \E out \in {del(kv, TheConn, key, connOk, cmdRejects)} :
        /\ ~ConnectConsulted => connOk
        /\ cmdRejects => (isConnected \/ connOk)
        /\ Settle(out)
        /\ ret' = Ret("del", key, out, connOk, cmdRejects)
        /\ tombstone' = IF Overwritten(key, out)
                        THEN [tombstone EXCEPT ![key] = NoTombstone] ELSE tombstone
        /\ UNCHANGED <<clock, defaultTTL, stats, tally, limiterState>>

Remove(key, soft, connOk, cmdRejects) ==
    \E out \in {remove(kv, TheConn, key, soft, defaultTTL, clock, connOk, cmdRejects)} :
        /\ ~ConnectConsulted => connOk
        /\ cmdRejects => (isConnected \/ connOk)
        /\ Settle(out)
        /\ ret' = Ret(IF soft THEN "removeSoft" ELSE "remove", key, out, connOk, cmdRejects)
        /\ tombstone' =
              IF soft /\ out.value = Str("OK")
              THEN [tombstone EXCEPT ![key] =
                      [set |-> TRUE,
                       until |-> IF defaultTTL > 0 THEN clock + defaultTTL ELSE -1]]
              ELSE IF Overwritten(key, out)
                   THEN [tombstone EXCEPT ![key] = NoTombstone] ELSE tombstone
        /\ UNCHANGED <<clock, defaultTTL, stats, tally, limiterState>>

Fetch(key, query, ttl, connOk, getRejects, connOk2, setRejects) ==
    \E f \in {fetch(kv, TheConn, stats, key, query, ttl, defaultTTL, clock,
                    connOk, getRejects, connOk2, setRejects)} :
        LET readOk == (isConnected \/ connOk) /\ ~getRejects
            stores == f.computed /\ query.kind = "returns"
                         /\ query.data # Null /\ query.data # Undefined
        IN  /\ stats.hits + stats.misses < MaxFetches
            /\ ~ConnectConsulted => connOk
            /\ getRejects => (isConnected \/ connOk)
            /\ ~(stores /\ ~isConnected /\ ~connOk) => connOk2
            /\ setRejects => (stores /\ (isConnected \/ connOk \/ connOk2))
            /\ ~stores => ttl = TTLUndefined
            /\ Settle(f.out)
            /\ stats' = f.stats
            /\ tally' = IF readOk /\ kv[prefixKey(key)].exists
                        THEN [tally EXCEPT !.h = @ + 1]
                        ELSE [tally EXCEPT !.m = @ + 1]
            /\ ret' = [op |-> "fetch", key |-> key, raised |-> f.out.raised,
                       err |-> f.out.err, value |-> f.out.value,
                       connFailed |-> (~isConnected /\ ~connOk),
                       cmdFailed |-> setRejects,
                       readOk |-> readOk,
                       counted |-> IF f.stats.hits = stats.hits + 1 THEN "hit" ELSE "miss",
                       computed |-> f.computed, query |-> query, tomb |-> TombState(key)]
            /\ tombstone' = IF Overwritten(key, f.out)
                            THEN [tombstone EXCEPT ![key] = NoTombstone] ELSE tombstone
            /\ UNCHANGED <<clock, defaultTTL, limiterState>>

\* The store drops a string key whose expiry falls in the current second.
KvExpire ==
    \E k \in StoreKeys :
        /\ kv[k].exists /\ kv[k].expireAt = clock
        /\ kv' = [kv EXCEPT ![k] = NoEntry]
        /\ UNCHANGED <<clock, isConnected, isConnecting, connectPromise, defaultTTL, stats, tally,
                       ret, tombstone, limiterState>>

GetCall == \E key \in CacheKeys, connOk \in BOOLEAN, cmdRejects \in BOOLEAN :
              Get(key, connOk, cmdRejects)
SetCall == \E key \in CacheKeys, value \in SetValues, ttl \in TTLOptions,
              connOk \in BOOLEAN, cmdRejects \in BOOLEAN :
              Set(key, value, ttl, connOk, cmdRejects)
DelCall == \E key \in CacheKeys, connOk \in BOOLEAN, cmdRejects \in BOOLEAN :
              Del(key, connOk, cmdRejects)
RemoveCall == \E key \in CacheKeys, soft \in BOOLEAN, connOk \in BOOLEAN, cmdRejects \in BOOLEAN :
              Remove(key, soft, connOk, cmdRejects)
FetchCall == \E key \in CacheKeys, query \in Queries, ttl \in FetchTTLs,
                connOk \in BOOLEAN, getRejects \in BOOLEAN,
                connOk2 \in BOOLEAN, setRejects \in BOOLEAN :
              Fetch(key, query, ttl, connOk, getRejects, connOk2, setRejects)

InitCache == InitStore /\ InitClient /\ InitLimiter /\ InitAux /\ defaultTTL \in DefaultTTLs

NextCache ==
    GetCall \/ SetCall \/ DelCall \/ RemoveCall \/ FetchCall
        \/ Tick \/ KvExpire \/ OnReady \/ OnEnd

SpecCache == InitCache /\ [][NextCache]_vars

\* ------------------------------------------------------------------ key-value surface
Amounts == {1, 2}
ExpireSeconds == {0, 1}

\* The frame of a call that touches neither the statistics nor the histories.
KvCall(op, key, out, connOk, cmdRejects) ==
    /\ ~ConnectConsulted => connOk
    /\ cmdRejects => (isConnected \/ connOk)
    /\ Settle(out)
    /\ ret' = Ret(op, key, out, connOk, cmdRejects)
    /\ UNCHANGED <<clock, defaultTTL, stats, tally, tombstone, limiterState>>

InCounterRange(out) ==
    out.value[1] = "num" => (-MaxCounter <= out.value[2] /\ out.value[2] <= MaxCounter)

Incr(key, connOk, cmdRejects) ==
    \E out \in {incr(kv, TheConn, key, connOk, cmdRejects)} :
        InCounterRange(out) /\ KvCall("incr", key, out, connOk, cmdRejects)

IncrBy(key, amount, connOk, cmdRejects) ==
    \E out \in {incrBy(kv, TheConn, key, amount, connOk, cmdRejects)} :
        InCounterRange(out) /\ KvCall("incrBy", key, out, connOk, cmdRejects)

Decr(key, connOk, cmdRejects) ==
    \E out \in {decr(kv, TheConn, key, connOk, cmdRejects)} :
        InCounterRange(out) /\ KvCall("decr", key, out, connOk, cmdRejects)

DecrBy(key, amount, connOk, cmdRejects) ==
    \E out \in {decrBy(kv, TheConn, key, amount, connOk, cmdRejects)} :
        InCounterRange(out) /\ KvCall("decrBy", key, out, connOk, cmdRejects)

Expire(key, seconds, connOk, cmdRejects) ==
    \E out \in {expire(kv, TheConn, key, seconds, clock, connOk, cmdRejects)} :
        KvCall("expire", key, out, connOk, cmdRejects)

Exists(key, connOk, cmdRejects) ==
    \E out \in {exists(kv, TheConn, key, connOk, cmdRejects)} :
        KvCall("exists", key, out, connOk, cmdRejects)

Ping(connOk, cmdRejects) ==
    \E out \in {ping(kv, TheConn, connOk, cmdRejects)} :
        KvCall("ping", <<>>, out, connOk, cmdRejects)

Connect(connOk) ==
    \E out \in {connectCall(kv, TheConn, connOk)} :
        KvCall("connect", <<>>, out, connOk, FALSE)

IncrCall == \E key \in CacheKeys, connOk \in BOOLEAN, cmdRejects \in BOOLEAN :
               Incr(key, connOk, cmdRejects)
IncrByCall == \E key \in CacheKeys, amount \in Amounts, connOk \in BOOLEAN, cmdRejects \in BOOLEAN :
               IncrBy(key, amount, connOk, cmdRejects)
DecrCall == \E key \in CacheKeys, connOk \in BOOLEAN, cmdRejects \in BOOLEAN :
               Decr(key, connOk, cmdRejects)
DecrByCall == \E key \in CacheKeys, amount \in Amounts, connOk \in BOOLEAN, cmdRejects \in BOOLEAN :
               DecrBy(key, amount, connOk, cmdRejects)
ExpireCall == \E key \in CacheKeys, seconds \in ExpireSeconds, connOk \in BOOLEAN, cmdRejects \in BOOLEAN :
               Expire(key, seconds, connOk, cmdRejects)
ExistsCall == \E key \in CacheKeys, connOk \in BOOLEAN, cmdRejects \in BOOLEAN :
               Exists(key, connOk, cmdRejects)
PingCall == \E connOk \in BOOLEAN, cmdRejects \in BOOLEAN : Ping(connOk, cmdRejects)
ConnectCall == \E connOk \in BOOLEAN : Connect(connOk)

NextKv ==
    GetCall \/ SetCall \/ DelCall \/ IncrCall \/ IncrByCall \/ DecrCall \/ DecrByCall
        \/ ExpireCall \/ ExistsCall \/ PingCall \/ ConnectCall
        \/ Tick \/ KvExpire \/ OnReady \/ OnEnd

SpecKv == InitCache /\ [][NextKv]_vars

\* ------------------------------------------------------------------ connect(), concurrent callers
\* Several callers run connect() and one runs disconnect() on the one client.
\* A call runs to its first await in one step; the promise of
\* this._client.connect() settles, and the 'ready' and 'end' events fire, at any
\* point in between.
Pending == {id \in PromiseIds : attempt[id] = "pending"}
Unused == {id \in PromiseIds : attempt[id] = "none"}
NextPromise == PromiseNames[Cardinality(PromiseIds \ Unused) + 1]

\* Everything but the connection fields and the calls on them.
connFrame ==
    <<clock, zsets, zexpire, rateLimitStore, last, admitted, ncalls, burst, inflight,
      defaultTTL, kv, stats, tally, ret, tombstone, simple, scanVars, localVars>>

\* connect() up to its return or its await.
ConnBegin(p) ==
    LET seen == [NoConnCall EXCEPT
                    !.sawPending = IF Pending # {} THEN CHOOSE id \in Pending : TRUE ELSE "null",
                    !.sawConnected = isConnected]
    IN  /\ conncall[p].pc # "await"
        /\ IF isConnected
           THEN /\ conncall' = [conncall EXCEPT ![p] =
                                  [seen EXCEPT !.pc = "done", !.outcome = "resolved"]]
                /\ UNCHANGED <<isConnecting, connectPromise, attempt>>
           ELSE IF isConnecting /\ connectPromise # "null"
                THEN /\ conncall' = [conncall EXCEPT ![p] =
                                       [seen EXCEPT !.pc = "await", !.awaits = connectPromise]]
                     /\ UNCHANGED <<isConnecting, connectPromise, attempt>>
                ELSE /\ Unused # {}
                     /\ isConnecting' = TRUE
                     /\ connectPromise' = NextPromise
                     /\ attempt' = [attempt EXCEPT ![NextPromise] = "pending"]
                     /\ conncall' = [conncall EXCEPT ![p] =
                                       [seen EXCEPT !.pc = "await", !.awaits = NextPromise,
                                                    !.started = TRUE]]
        /\ UNCHANGED <<isConnected, disc, connFrame>>

\* this._client.connect() resolves: the first callback of then().
AttemptResolves(id) ==
    /\ attempt[id] = "pending"
    /\ attempt' = [attempt EXCEPT ![id] = "resolved"]
    /\ isConnected' = TRUE
    /\ isConnecting' = FALSE
    /\ UNCHANGED <<connectPromise, conncall, disc, connFrame>>

\* this._client.connect() rejects: the second callback of then().
AttemptRejects(id) ==
    /\ attempt[id] = "pending"
    /\ attempt' = [attempt EXCEPT ![id] = "rejected"]
    /\ isConnecting' = FALSE
    /\ connectPromise' = "null"
    /\ UNCHANGED <<isConnected, conncall, disc, connFrame>>

\* connect() after its await: the call ends as the promise it awaited did.
ConnEnd(p) ==
    /\ conncall[p].pc = "await"
    /\ attempt[conncall[p].awaits] \in {"resolved", "rejected"}
    /\ conncall' = [conncall EXCEPT ![p].pc = "done",
                                    ![p].outcome = attempt[conncall[p].awaits]]
    /\ UNCHANGED <<isConnected, isConnecting, connectPromise, attempt, disc, connFrame>>

\* disconnect() up to await this._client.disconnect().
DisconnectBegin ==
    /\ disc = "idle"
    /\ isConnected
    /\ disc' = "await"
    /\ UNCHANGED <<isConnected, isConnecting, connectPromise, attempt, conncall, connFrame>>

\* disconnect() after its await.
DisconnectEnd ==
    /\ disc = "await"
    /\ disc' = "idle"
    /\ isConnected' = FALSE
    /\ isConnecting' = FALSE
    /\ connectPromise' = "null"
    /\ UNCHANGED <<attempt, conncall, connFrame>>

ConnBeginCall == \E p \in Callers : ConnBegin(p)
ConnEndCall == \E p \in Callers : ConnEnd(p)
AttemptResolvesStep == \E id \in PromiseIds : AttemptResolves(id)
AttemptRejectsStep == \E id \in PromiseIds : AttemptRejects(id)

InitConn == InitStore /\ InitClient /\ InitLimiter /\ InitAux /\ defaultTTL = 0

NextConn ==
    ConnBeginCall \/ ConnEndCall \/ AttemptResolvesStep \/ AttemptRejectsStep
        \/ DisconnectBegin \/ DisconnectEnd \/ OnReady \/ OnEnd

SpecConn == InitConn /\ [][NextConn]_vars

\* ------------------------------------------------------------------ simple counter limiter
SimpleConfigs == {[limit |-> 2, window |-> 2], [limit |-> 1, window |-> 1]}

\* What goes wrong inside a call of the method: nothing, the connection attempt,
\* INCR or EXPIRE.
SimpleFailures == {"none", "connect", "incr", "expire"}

\* clientRateLimit returning true at the limit already.
clientRateLimitAtLimit(st, conn, key, limit, windowSeconds, now, failure) ==
    LET c == connect(conn, failure # "connect")
        prefixedKey == prefixKey(SimpleKey(key))
        i == cmdIncrBy(st, prefixedKey, 1)
        e == cmdExpire(i.store, prefixedKey, windowSeconds, now)
    IN  IF c.threw THEN Outcome(st, c.conn, FALSE, "none", Bool(FALSE))
        ELSE IF failure = "incr" \/ ~i.ok THEN Outcome(st, c.conn, FALSE, "none", Bool(FALSE))
        ELSE IF i.reply = 1 /\ failure = "expire"
             THEN Outcome(i.store, c.conn, FALSE, "none", Bool(FALSE))
        ELSE Outcome(IF i.reply = 1 THEN e.store ELSE i.store, c.conn, FALSE, "none",
                     Bool(i.reply >= limit))

\* clientRateLimit without the catch: a failure rejects the call.
clientRateLimitNoCatch(st, conn, key, limit, windowSeconds, now, failure) ==
    LET c == connect(conn, failure # "connect")
        prefixedKey == prefixKey(SimpleKey(key))
        i == cmdIncrBy(st, prefixedKey, 1)
        e == cmdExpire(i.store, prefixedKey, windowSeconds, now)
    IN  IF c.threw THEN Outcome(st, c.conn, TRUE, "connect", Undefined)
        ELSE IF failure = "incr" \/ ~i.ok THEN Outcome(st, c.conn, TRUE, "store", Undefined)
        ELSE IF i.reply = 1 /\ failure = "expire"
             THEN Outcome(i.store, c.conn, TRUE, "store", Undefined)
        ELSE Outcome(IF i.reply = 1 THEN e.store ELSE i.store, c.conn, FALSE, "none",
                     Bool(i.reply > limit))

\* EntrolyticsRedisClient.rateLimit(key, limit, windowSeconds): connect, INCR and
\* EXPIRE are awaited inside try; the catch answers false.  A rejected EXPIRE
\* leaves the increment in the store.
clientRateLimit(st, conn, key, limit, windowSeconds, now, failure) ==
    LET c == connect(conn, failure # "connect")
        prefixedKey == prefixKey(SimpleKey(key))
        i == cmdIncrBy(st, prefixedKey, 1)
        e == cmdExpire(i.store, prefixedKey, windowSeconds, now)
    IN  IF c.threw THEN Outcome(st, c.conn, FALSE, "none", Bool(FALSE))
        ELSE IF failure = "incr" \/ ~i.ok THEN Outcome(st, c.conn, FALSE, "none", Bool(FALSE))
        ELSE IF i.reply = 1 /\ failure = "expire"
             THEN Outcome(i.store, c.conn, FALSE, "none", Bool(FALSE))
        ELSE Outcome(IF i.reply = 1 THEN e.store ELSE i.store, c.conn, FALSE, "none",
                     Bool(i.reply > limit))

\* `simple:${identifier}`, the key of the in-memory fallback
SimpleMemKey(identifier) == <<"simple", identifier>>

\* rateLimitSimple with a null client: [store, limited] on the Map.
rateLimitSimpleInMemory(map, identifier, limit, windowSeconds, now) ==
    LET key == SimpleMemKey(identifier)
        windowStart == now - windowSeconds
        timestamps == FilterNewer(MapGetOrEmpty(map, key), windowStart)
    IN  IF Len(timestamps) >= limit
        THEN [store |-> map, limited |-> TRUE]
        ELSE [store |-> MapSet(map, key, Append(timestamps, now)), limited |-> FALSE]

\* One call of rateLimitSimple(client, identifier, limit, windowSeconds).
RateLimitSimple(client, identifier, cfg, failure) ==
    LET pk == prefixKey(SimpleKey(identifier))
    IN  /\ ncalls < MaxCalls
        /\ ncalls' = ncalls + 1
        /\ IF client = NullClient
           THEN \E m \in {rateLimitSimpleInMemory(rateLimitStore, identifier, cfg.limit,
                                                  cfg.window, clock)} :
                   /\ failure = "none"
                   /\ rateLimitStore' = m.store
                   /\ simple' = [NoSimple EXCEPT
                                   !.op = "simple", !.mode = "memory", !.limit = cfg.limit,
                                   !.window = cfg.window, !.now = clock,
                                   !.limited = m.limited,
                                   !.n = simple.n, !.clean = simple.clean]
                   /\ UNCHANGED <<kv, isConnected, isConnecting, connectPromise>>
           ELSE \E out \in {clientRateLimit(kv, TheConn, identifier, cfg.limit, cfg.window,
                                            clock, failure)} :
                   LET applied == out.store[pk] # kv[pk]
                       before == IF kv[pk].exists THEN simple.n ELSE 0
                   IN  /\ failure = "connect" => ~isConnected
                       /\ failure = "expire" => ~kv[pk].exists
                       /\ Settle(out)
                       /\ simple' =
                             [op |-> "simple", mode |-> "store", limit |-> cfg.limit,
                              window |-> cfg.window, now |-> clock,
                              limited |-> (out.value = Bool(TRUE)),
                              raised |-> out.raised,
                              value |-> IF applied THEN TextInt(out.store[pk].data) ELSE 0,
                              expireSet |-> out.store[pk].expireAt # kv[pk].expireAt,
                              failed |-> failure,
                              n |-> IF applied THEN before + 1 ELSE before,
                              clean |-> /\ failure = "none"
                                        /\ (kv[pk].exists => simple.clean)]
                       /\ UNCHANGED rateLimitStore
        /\ UNCHANGED <<clock, zsets, zexpire, last, admitted, burst, inflight, defaultTTL,
                       stats, tally, ret, tombstone, connVars, scanVars, localVars>>

RateLimitSimpleCall ==
    \E client \in Clients, identifier \in Identifiers, cfg \in SimpleConfigs,
       failure \in SimpleFailures :
        RateLimitSimple(client, identifier, cfg, failure)

InitSimple == InitStore /\ InitClient /\ InitLimiter /\ InitAux /\ defaultTTL = 0

NextSimple == RateLimitSimpleCall \/ Tick \/ KvExpire \/ OnReady \/ OnEnd

SpecSimple == InitSimple /\ [][NextSimple]_vars

\* ------------------------------------------------------------------ pattern invalidation
\* The prefixes a client is constructed with, the keys a shared store may hold,
\* and the patterns handed to invalidatePattern.
ScanPrefixes == {NsPlain, NsBracket}

KeyUniverse ==
    { NsPlain \o User1, NsPlain \o User2, NsPlain \o Order1,
      NsBracket \o User1, <<"n", ":">> \o User1 }

ScanPatterns == { <<"u", "s", "e", "r", ":", "*">>, <<"u", "s", "e", "r", ":", "?">> }

\* `${this.prefix}${key}` on character sequences
prefixChars(pfx, key) == pfx \o key

\* key.startsWith(pfx)
StartsWith(key, pfx) == Len(key) >= Len(pfx) /\ SubSeq(key, 1, Len(pfx)) = pfx

\* Position of the first "]" of pat after position 1, or 0.
ClassEnd(pat) ==
    IF \E i \in 2..Len(pat) : pat[i] = "]"
    THEN CHOOSE i \in 2..Len(pat) : pat[i] = "]" /\ \A j \in 2..(i - 1) : pat[j] # "]"
    ELSE 0

\* The store's glob match of MATCH: * any run of characters, ? one character,
\* [abc] one character of the class, anything else itself.
RECURSIVE GlobMatch(_, _)
GlobMatch(pat, text) ==
    IF pat = <<>> THEN text = <<>>
    ELSE IF pat[1] = "*"
         THEN GlobMatch(Tail(pat), text) \/ (text # <<>> /\ GlobMatch(pat, Tail(text)))
    ELSE IF text = <<>> THEN FALSE
    ELSE IF pat[1] = "?" THEN GlobMatch(Tail(pat), Tail(text))
    ELSE IF pat[1] = "[" /\ ClassEnd(pat) # 0
         THEN /\ \E i \in 2..(ClassEnd(pat) - 1) : pat[i] = text[1]
              /\ GlobMatch(SubSeq(pat, ClassEnd(pat) + 1, Len(pat)), Tail(text))
    ELSE pat[1] = text[1] /\ GlobMatch(Tail(pat), Tail(text))

\* SCAN cursor MATCH pattern: the keys of one batch, out of the part of the
\* keyspace (visit) the store walks in this round.
scanBatch(keys, visit, pattern) == {k \in visit \cap keys : GlobMatch(pattern, k)}

\* DEL key [key ...]: [keys, reply]
delBatch(keys, batch) == [keys |-> keys \ batch, reply |-> Cardinality(batch \cap keys)]

\* deletedCount = (reply of the last DEL), the sum forgotten.
accumulateLast(deletedCount, reply) == reply

\* deletedCount += await this._client.del(result.keys)
accumulate(deletedCount, reply) == deletedCount + reply

\* invalidatePattern(pattern) up to the first SCAN: connect inside try.
InvalidateBegin(op, pattern, connOk) ==
    /\ scan.pc # "scan"
    /\ isConnected => connOk
    /\ \E c \in {connect(TheConn, connOk)} :
          /\ isConnected' = c.conn.isConnected
          /\ isConnecting' = c.conn.isConnecting
          /\ connectPromise' = c.conn.connectPromise
          /\ scan' = IF c.threw
                     THEN [NoScan EXCEPT !.pc = "done", !.op = op, !.pattern = pattern,
                                         !.start = keyspace, !.failed = TRUE]
                     ELSE [NoScan EXCEPT !.pc = "scan", !.op = op, !.pattern = pattern,
                                         !.start = keyspace, !.todo = keyspace]
    /\ UNCHANGED <<prefix, keyspace, clock, zsets, zexpire, rateLimitStore, last, admitted,
                   ncalls, burst, inflight, defaultTTL, kv, stats, tally, ret, tombstone,
                   connVars, simple, localVars>>

\* One round of the loop: SCAN, DEL of a batch that is not empty, and the test of
\* the cursor, which is 0 when the store has walked the whole keyspace.
ScanRound(visit, rejects) ==
    /\ scan.pc = "scan"
    /\ visit \subseteq scan.todo
    /\ (scan.todo # {}) => (visit # {})
    /\ \E batch \in {scanBatch(keyspace, visit, prefixChars(prefix, scan.pattern))} :
       \E d \in {delBatch(keyspace, batch)} :
          IF rejects
          THEN /\ scan' = [scan EXCEPT !.pc = "done", !.ret = 0, !.failed = TRUE]
               /\ UNCHANGED keyspace
          ELSE /\ keyspace' = IF batch # {} THEN d.keys ELSE keyspace
               /\ scan' = [scan EXCEPT
                             !.rounds = @ + 1,
                             !.todo = scan.todo \ visit,
                             !.deletedCount = IF batch # {}
                                              THEN accumulate(scan.deletedCount, d.reply)
                                              ELSE scan.deletedCount,
                             !.pc = IF scan.todo \ visit = {} THEN "done" ELSE "scan",
                             !.ret = IF scan.todo \ visit # {} THEN 0
                                     ELSE IF batch # {}
                                          THEN accumulate(scan.deletedCount, d.reply)
                                          ELSE scan.deletedCount]
    /\ UNCHANGED <<prefix, isConnected, isConnecting, connectPromise, clock, zsets, zexpire,
                   rateLimitStore, last, admitted, ncalls, burst, inflight, defaultTTL, kv,
                   stats, tally, ret, tombstone, connVars, simple, localVars>>

InvalidatePatternCall ==
    \E pattern \in ScanPatterns, connOk \in BOOLEAN :
        InvalidateBegin("invalidatePattern", pattern, connOk)

\* flushPrefix() is invalidatePattern('*').
FlushPrefixCall == \E connOk \in BOOLEAN : InvalidateBegin("flushPrefix", <<"*">>, connOk)

ScanRoundStep == \E visit \in SUBSET KeyUniverse, rejects \in BOOLEAN : ScanRound(visit, rejects)

\* A client constructed with one of the prefixes, on a store that holds any of
\* the keys.
InitScan ==
    /\ InitStore /\ InitClient /\ InitLimiter /\ InitConnCalls /\ simple = NoSimple
    /\ InitLocal
    /\ defaultTTL = 0
    /\ prefix \in ScanPrefixes
    /\ keyspace \in SUBSET KeyUniverse
    /\ scan = NoScan

NextScan == InvalidatePatternCall \/ FlushPrefixCall \/ ScanRoundStep \/ OnReady \/ OnEnd

SpecScan == InitScan /\ [][NextScan]_vars

\* ------------------------------------------------------------------ statistics
\* A CacheStats object; hitRate is the quotient num / den.
CacheStats(hits, misses, num, den) == <<"stats", hits, misses, num, den>>

\* getStats with hitRate taken over the misses.
getStatsMissRate(counters) ==
    LET total == counters.hits + counters.misses
    IN  IF total > 0 THEN CacheStats(counters.hits, counters.misses, counters.misses, total)
        ELSE CacheStats(counters.hits, counters.misses, 0, 1)

\* getStats()
getStats(counters) ==
    LET total == counters.hits + counters.misses
    IN  IF total > 0 THEN CacheStats(counters.hits, counters.misses, counters.hits, total)
        ELSE CacheStats(counters.hits, counters.misses, 0, 1)

\* resetStats()
resetStats == [hits |-> 0, misses |-> 0]

GetStats ==
    /\ ret' = [NoRet EXCEPT !.op = "getStats", !.value = getStats(stats)]
    /\ UNCHANGED <<clock, isConnected, isConnecting, connectPromise, defaultTTL, kv, stats,
                   tally, tombstone, limiterState>>

ResetStats ==
    /\ stats' = resetStats
    /\ tally' = [h |-> 0, m |-> 0]
    /\ ret' = [NoRet EXCEPT !.op = "resetStats"]
    /\ UNCHANGED <<clock, isConnected, isConnecting, connectPromise, defaultTTL, kv,
                   tombstone, limiterState>>

NextStats ==
    FetchCall \/ SetCall \/ RemoveCall \/ GetStats \/ ResetStats
        \/ Tick \/ KvExpire \/ OnReady \/ OnEnd

SpecStats == InitCache /\ [][NextStats]_vars

\* ------------------------------------------------------------------ limiter without a client
\* createRateLimiter(null): check, checkSimple and getRemaining all work on the
\* module-level Map.
\* getRemaining with a null client: the Map is read and left as it is.
getRemainingInMemory(map, identifier, config, now) ==
    LET key == RateLimitKey(config, identifier)
        windowStart == now - config.window
        validTimestamps == FilterNewer(MapGetOrEmpty(map, key), windowStart)
    IN  IF config.limit - Len(validTimestamps) > 0
        THEN config.limit - Len(validTimestamps) ELSE 0

\* Timestamps of key that a filter at now - window drops.
Stale(map, key, now, window) ==
    Len(MapGetOrEmpty(map, key)) - Len(FilterNewer(MapGetOrEmpty(map, key), now - window))

\* Everything but the Map, the clock and the records of the calls on the Map.
localFrame ==
    <<isConnected, zsets, zexpire, last, admitted, burst, inflight, isConnecting,
      connectPromise, defaultTTL, kv, stats, tally, ret, tombstone, connVars, simple,
      scanVars>>

\* check(identifier, config): rateLimit(null, identifier, config), decided by
\* inMemoryRateLimit.  The shadow takes the same call on a Map that is never swept.
Check(identifier, config, sweep) ==
    LET key == RateLimitKey(config, identifier)
        now == clock
        windowStart == now - config.window
    IN  /\ ncalls < MaxCalls
        /\ ncalls' = ncalls + 1
        /\ \E m \in {inMemoryRateLimit(rateLimitStore, key, config, now, windowStart, sweep)},
              sh \in {inMemoryRateLimit(shadow.store, key, config, now, windowStart, FALSE)} :
              /\ sweep => m.result.success
              /\ rateLimitStore' = m.store
              /\ shadow' = [store |-> sh.store, result |-> sh.result,
                            swept |-> shadow.swept \/ sweep]
              /\ lread' = [op |-> "check", key |-> key, now |-> now,
                           window |-> config.window, success |-> m.result.success,
                           remaining |-> m.result.remaining,
                           dropped |-> Stale(rateLimitStore, key, now, config.window)]
        /\ UNCHANGED <<clock, localFrame>>

\* checkSimple(identifier, limit, windowSeconds): rateLimitSimple(null, ...).
CheckSimple(identifier, cfg) ==
    LET key == SimpleMemKey(identifier)
    IN  /\ ncalls < MaxCalls
        /\ ncalls' = ncalls + 1
        /\ \E m \in {rateLimitSimpleInMemory(rateLimitStore, identifier, cfg.limit,
                                             cfg.window, clock)} :
              /\ rateLimitStore' = m.store
              /\ lread' = [op |-> "checkSimple", key |-> key, now |-> clock,
                           window |-> cfg.window, success |-> ~m.limited,
                           remaining |-> 0,
                           dropped |-> Stale(rateLimitStore, key, clock, cfg.window)]
        /\ UNCHANGED <<clock, shadow, localFrame>>

\* getRemaining(identifier, config)
GetRemaining(identifier, config) ==
    LET key == RateLimitKey(config, identifier)
    IN  /\ ncalls < MaxCalls
        /\ ncalls' = ncalls + 1
        /\ lread' = [op |-> "getRemaining", key |-> key, now |-> clock,
                     window |-> config.window, success |-> TRUE,
                     remaining |-> getRemainingInMemory(rateLimitStore, identifier, config, clock),
                     dropped |-> Stale(rateLimitStore, key, clock, config.window)]
        /\ UNCHANGED <<clock, rateLimitStore, shadow, localFrame>>

CheckCall == \E identifier \in Identifiers, config \in Configs, sweep \in BOOLEAN :
                Check(identifier, config, sweep)
CheckSimpleCall == \E identifier \in Identifiers, cfg \in SimpleConfigs :
                CheckSimple(identifier, cfg)
GetRemainingCall == \E identifier \in Identifiers, config \in Configs :
                GetRemaining(identifier, config)

InitLocalLimiter == InitStore /\ InitClient /\ InitLimiter /\ InitAux /\ defaultTTL = 0

NextLocal == CheckCall \/ CheckSimpleCall \/ GetRemainingCall \/ Tick

SpecLocal == InitLocalLimiter /\ [][NextLocal]_vars

\* ------------------------------------------------------------------ one client, all operations
\* The cache operations, pattern invalidation, the two limiters and resetStats
\* on one client.
Store(key, data, ttl, connOk, cmdRejects) ==
    \E out \in {store(kv, TheConn, key, data, ttl, defaultTTL, clock, connOk, cmdRejects)} :
        /\ ~ConnectConsulted => connOk
        /\ cmdRejects => (isConnected \/ connOk)
        /\ Settle(out)
        /\ ret' = Ret("store", key, out, connOk, cmdRejects)
        /\ tombstone' = IF Overwritten(key, out)
                        THEN [tombstone EXCEPT ![key] = NoTombstone] ELSE tombstone
        /\ UNCHANGED <<clock, defaultTTL, stats, tally, limiterState>>

StoreCall == \E key \in CacheKeys, data \in SetValues, ttl \in TTLOptions,
                connOk \in BOOLEAN, cmdRejects \in BOOLEAN :
              Store(key, data, ttl, connOk, cmdRejects)

InitAll ==
    /\ InitStore /\ InitClient /\ InitLimiter /\ InitConnCalls /\ simple = NoSimple
    /\ InitLocal
    /\ defaultTTL = 0
    /\ prefix = NsPlain
    /\ keyspace = {NsPlain \o User1}
    /\ scan = NoScan

\* A behaviour holds, at any point among the cache operations, one call of a
\* limiter or one pattern invalidation.
Untouched == ncalls = 0 /\ scan.pc = "idle"

OneInvalidatePattern == Untouched /\ InvalidatePatternCall
OneRateLimit == Untouched /\ RateLimitCall
OneRateLimitSimple == Untouched /\ RateLimitSimpleCall

NextAll ==
    FetchCall \/ GetCall \/ SetCall \/ StoreCall \/ RemoveCall \/ ResetStats
        \/ OneInvalidatePattern \/ ScanRoundStep \/ OneRateLimit \/ OneRateLimitSimple

SpecAll == InitAll /\ [][NextAll]_vars

\* ------------------------------------------------------------------ the two modes, side by side
\* The same call made at the same second twice: through a connected client whose
\* store does not fail (decided by the store) and with a null client (decided by
\* the local tracker).  All the calls of a behaviour are for one identifier and
\* one config.
CheckBoth(identifier, config, sweep) ==
    LET key == RateLimitKey(config, identifier)
        now == clock
        windowStart == now - config.window
        prefixedKey == prefixKey(key)
    IN  /\ isConnected
        /\ ncalls < MaxCalls
        /\ last.op = "none" \/ (last.identifier = identifier /\ last.config = config)
        /\ \E tx \in {multiExec(zsets[prefixedKey], now, windowStart, config.window)},
              mem \in {inMemoryRateLimit(rateLimitStore, key, config, now, windowStart, sweep)} :
           \E viaStore \in {rateLimitOutcome(TRUE, FALSE, tx.count, NoResult, config, now)},
              viaNull \in {rateLimitOutcome(FALSE, FALSE, 0, mem.result, config, now)} :
              /\ sweep => mem.result.success
              /\ zsets' = [zsets EXCEPT ![prefixedKey] = tx.scores]
              /\ zexpire' = [zexpire EXCEPT ![prefixedKey] = tx.expire]
              /\ rateLimitStore' = mem.store
              /\ last' = [op |-> "rateLimit", identifier |-> identifier,
                          config |-> config, now |-> now, mode |-> viaStore.mode,
                          useRedis |-> TRUE, txFailed |-> FALSE, raised |-> viaStore.raised,
                          result |-> viaStore.result]
              /\ lread' = [op |-> "check", key |-> key, now |-> now,
                           window |-> config.window, success |-> viaNull.result.success,
                           remaining |-> viaNull.result.remaining,
                           dropped |-> Stale(rateLimitStore, key, now, config.window)]
              /\ admitted' =
                    [m \in Modes |->
                        IF (IF m = "redis" THEN viaStore.result.success
                            ELSE viaNull.result.success)
                        THEN [admitted[m] EXCEPT ![key] = Append(@, now)]
                        ELSE admitted[m]]
        /\ ncalls' = ncalls + 1
        /\ UNCHANGED <<clock, isConnected, burst, inflight, isConnecting, connectPromise,
                       defaultTTL, kv, stats, tally, ret, tombstone, connVars, simple,
                       scanVars, shadow>>

CheckBothCall == \E identifier \in Identifiers, config \in Configs, sweep \in BOOLEAN :
                    CheckBoth(identifier, config, sweep)

InitPair == InitStore /\ InitClient /\ InitLimiter /\ InitAux /\ defaultTTL = 0

NextPair == CheckBothCall \/ Tick \/ ExpireKey \/ OnReady

SpecPair == InitPair /\ [][NextPair]_vars

\* ------------------------------------------------------------------ one identifier, one config
\* One process calls rateLimit for one identifier and one config, while the
\* connection comes and goes and transactions fail.
RateLimitOne(client, identifier, config, txFails, txApplied, sweep) ==
    /\ last.op = "none" \/ (last.identifier = identifier /\ last.config = config)
    /\ rateLimit(client, identifier, config, txFails, txApplied, sweep)

RateLimitOneCall ==
    \E client \in Clients, identifier \in Identifiers, config \in Configs,
       txFails \in BOOLEAN, txApplied \in BOOLEAN, sweep \in BOOLEAN :
        RateLimitOne(client, identifier, config, txFails, txApplied, sweep)

InitOne == InitStore /\ InitClient /\ InitLimiter /\ InitAux /\ defaultTTL = 0

NextOne == RateLimitOneCall \/ Tick \/ ExpireKey \/ OnReady \/ OnEnd

SpecOne == InitOne /\ [][NextOne]_vars

\* ------------------------------------------------------------------ createRateLimiter: check and getRemaining
\* `${config.bucket}:${identifier}`, the key getRemaining hands to the client
RemainingArg(config, identifier) == <<config.bucket, identifier>>

\* this.prefixKey(`ratelimit:${key}`) for a key of several segments
RemainingKey(key) == prefixKey(<<"ratelimit">> \o key)

\* GET on the store that holds the strings (st) and the sorted sets (zs) alike:
\* [ok, value].  The store refuses GET on a key that holds a sorted set
\* (WRONGTYPE); a sorted set without members is no key.
cmdGetAnyType(st, zs, pk) ==
    IF pk \in DOMAIN zs /\ zs[pk] # <<>> THEN [ok |-> FALSE, value |-> Null]
    ELSE IF pk \in DOMAIN st THEN [ok |-> TRUE, value |-> cmdGet(st, pk)]
    ELSE [ok |-> TRUE, value |-> Null]

NaN == <<"NaN">>

\* parseInt(text, 10) on the texts of the model
parseInt(text) == IF IsIntText(text) THEN Num(TextInt(text)) ELSE NaN

\* getRateLimitRemaining(key, limit): connect and GET are awaited inside try; the
\* catch answers limit.
getRateLimitRemaining(st, zs, conn, key, limit, connOk, cmdRejects) ==
    LET c == connect(conn, connOk)
        current == cmdGetAnyType(st, zs, RemainingKey(key))
        count == IF current.value # Null /\ current.value # Str("")
                 THEN parseInt(current.value[2]) ELSE Num(0)
    IN  IF c.threw \/ cmdRejects \/ ~current.ok
        THEN Outcome(st, c.conn, FALSE, "none", Num(limit))
        ELSE IF count = NaN
             THEN Outcome(st, c.conn, FALSE, "none", NaN)
             ELSE Outcome(st, c.conn, FALSE, "none",
                          Num(IF limit - count[2] > 0 THEN limit - count[2] ELSE 0))

\* getRemaining(identifier, config) of createRateLimiter(client).
GetRemainingOf(client, identifier, config, connOk, cmdRejects) ==
    LET key == RateLimitKey(config, identifier)
        read == [op |-> "getRemaining", key |-> key, now |-> clock,
                 window |-> config.window, success |-> TRUE, remaining |-> 0,
                 dropped |-> 0, client |-> client, n |-> ncalls + 1, value |-> Num(0)]
    IN  /\ ncalls < MaxCalls
        /\ ncalls' = ncalls + 1
        /\ last.op = "none" \/ (last.identifier = identifier /\ last.config = config)
        /\ IF client = NullClient
           THEN \E r \in {getRemainingInMemory(rateLimitStore, identifier, config, clock)} :
                   /\ connOk /\ ~cmdRejects
                   /\ lread' = [read EXCEPT !.remaining = r, !.value = Num(r),
                                            !.dropped = Stale(rateLimitStore, key, clock,
                                                              config.window)]
                   /\ UNCHANGED <<kv, isConnected, isConnecting, connectPromise>>
           ELSE \E out \in {getRateLimitRemaining(kv, zsets, TheConn,
                                                  RemainingArg(config, identifier),
                                                  config.limit, connOk, cmdRejects)} :
                   /\ ~ConnectConsulted => connOk
                   /\ cmdRejects => (isConnected \/ connOk)
                   /\ Settle(out)
                   /\ lread' = [read EXCEPT
                                   !.remaining = IF out.value = NaN THEN -1 ELSE out.value[2],
                                   !.value = out.value]
        /\ UNCHANGED <<clock, zsets, zexpire, rateLimitStore, last, admitted, burst, inflight,
                       defaultTTL, stats, tally, ret, tombstone, connVars, simple, scanVars,
                       shadow>>

GetRemainingOfCall ==
    \E client \in Clients, identifier \in Identifiers, config \in Configs,
       connOk \in BOOLEAN, cmdRejects \in BOOLEAN :
        GetRemainingOf(client, identifier, config, connOk, cmdRejects)

InitRemaining == InitStore /\ InitClient /\ InitLimiter /\ InitAux /\ defaultTTL = 0

NextRemaining == RateLimitOneCall \/ GetRemainingOfCall \/ Tick \/ ExpireKey \/ OnReady \/ OnEnd

SpecRemaining == InitRemaining /\ [][NextRemaining]_vars

\* ================================================================== claims
\* Number of admitted calls for `key` decided in `mode` whose timestamp lies in
\* the `window` seconds ending at second t, that is in t - window + 1 .. t.
AdmittedIn(mode, key, t, window) ==
    Cardinality({j \in DOMAIN admitted[mode][key] :
                    /\ admitted[mode][key][j] > t - window
                    /\ admitted[mode][key][j] <= t})

WindowBound(mode) ==
    \A c \in Configs, i \in Identifiers, t \in 0..MaxTime :
        AdmittedIn(mode, RateLimitKey(c, i), t, c.window) <= c.limit

C2_LocalWindowBound == WindowBound("memory")

\* C3: a call whose transaction failed, or whose client is null or not
\* connected, does not raise and returns what the local tracker produces for the
\* same key, config, now and windowStart on the Map as it was before the call,
\* with limit = config.limit, remaining >= 0 and reset = now + window.
C3_FallbackIsLocal ==
    [][(ncalls' = ncalls + 1 /\ (last'.txFailed \/ ~last'.useRedis)) =>
          LET config == last'.config
              key == RateLimitKey(config, last'.identifier)
              now == last'.now
          IN  /\ ~last'.raised
              /\ \E sweep \in BOOLEAN :
                    LET local == inMemoryRateLimit(rateLimitStore, key, config, now,
                                                   now - config.window, sweep)
                    IN  /\ last'.result = local.result
                        /\ rateLimitStore' = local.store
              /\ last'.result.limit = config.limit
              /\ last'.result.remaining >= 0
              /\ last'.result.reset = now + config.window]_vars

\* C3 witness: a call through a connected client whose transaction failed was
\* answered (and rejected) by the local tracker.
C3_Witness ==
    /\ last.op = "rateLimit" /\ last.useRedis /\ last.txFailed
    /\ last.mode = "memory" /\ ~last.raised /\ ~last.result.success
    /\ Len(admitted["memory"][RateLimitKey(last.config, last.identifier)]) = last.config.limit

\* C4 (as claimed): with concurrent callers, whatever the order in which their
\* transactions reach the store, at most `limit` of the calls for one identifier
\* and config whose timestamps lie inside one window return success.
C4_ConcurrentWindowBound ==
    \A c \in Configs, i \in Identifiers, t \in 0..MaxTime :
        LET stamps == admitted["redis"][RateLimitKey(c, i)]
        IN  Cardinality({j \in DOMAIN stamps : t - c.window < stamps[j] /\ stamps[j] <= t})
                <= c.limit

\* C5: in a burst of back-to-back calls for a fresh key in one mode, call number
\* n succeeds iff n <= limit, with remaining = limit - n on a success and 0 on a
\* rejection, and reset = now + window.
C5_Burst ==
    burst.active =>
        /\ ~last.raised
        /\ last.result.success = (burst.n <= last.config.limit)
        /\ last.result.remaining =
              (IF burst.n <= last.config.limit THEN last.config.limit - burst.n ELSE 0)
        /\ last.result.reset = last.now + last.config.window
        /\ last.result.limit = last.config.limit

\* C5 witness: a burst for a config with limit >= 2 ran past the limit: call
\* number limit + 1 was rejected.
C5_Witness ==
    burst.active /\ burst.n = last.config.limit + 1 /\ last.config.limit >= 2
        /\ ~last.result.success

\* What a fetch that found the key in the cache leaves behind: null to the
\* caller, a hit counted, the query not invoked.
Suppressed ==
    /\ ~ret.raised
    /\ ret.value = Null
    /\ ret.counted = "hit"
    /\ ~ret.computed

\* C6 (as claimed): once remove(key, soft = true) has stored the tombstone, every
\* later fetch of the key that reads the store, at any later time, returns null,
\* counts a hit and does not invoke the query, until a hard delete or an
\* overwrite of the key.
C6_SoftDeleteSuppressesAtAnyTime ==
    (ret.op = "fetch" /\ ret.readOk /\ ret.tomb \in {"live", "lapsed"}) => Suppressed

\* C6 (amended): the same, for every fetch made before the tombstone's time to
\* live (defaultTTL seconds; unlimited when defaultTTL <= 0) has run out.
C6_SoftDeleteSuppressesWithinTTL ==
    (ret.op = "fetch" /\ ret.readOk /\ ret.tomb = "live") => Suppressed

\* C6 witness: a fetch with a query, made a second or more after the soft
\* delete and within its time to live, was answered from the tombstone.
C6_Witness ==
    /\ ret.op = "fetch" /\ ret.readOk /\ ret.tomb = "live"
    /\ ret.query = QueryReturns(Str("v1"))
    /\ defaultTTL > 0 /\ clock >= 1
    /\ \E k \in CacheKeys : tombstone[k].set /\ tombstone[k].until = clock + 1
    /\ stats.hits = 1

\* C7 (as claimed): a fetch that misses and whose query returns data returns
\* that data and does not raise, whether or not storing it succeeds.
C7_FetchSurvivesFailedWrite ==
    (ret.op = "fetch" /\ ret.counted = "miss" /\ ret.query.kind = "returns") =>
        /\ ret.computed
        /\ ~ret.raised
        /\ ret.value = ret.query.data

SafeDefault(op) ==
    CASE op \in {"get", "set"} -> Null
      [] op \in {"del", "incr", "incrBy", "decr", "decrBy"} -> Num(0)
      [] op \in {"expire", "exists"} -> Bool(FALSE)

KvSurface == {"get", "set", "del", "incr", "incrBy", "decr", "decrBy", "expire", "exists"}

\* C8 (as claimed): a call of the key-value surface whose store command raised
\* does not raise and returns its safe default.
C8_StoreErrorsAbsorbed ==
    (ret.op \in KvSurface /\ ret.cmdFailed) =>
        (~ret.raised /\ ret.value = SafeDefault(ret.op))

\* C9: when fetch misses and the query throws, the query's error reaches the
\* caller as it is, the miss is counted and the store is left as it was.
C9_ComputeFailurePropagates ==
    [][(stats' # stats /\ ret'.op = "fetch" /\ ret'.counted = "miss"
          /\ ret'.query = QueryThrows) =>
          /\ ret'.raised
          /\ ret'.err = "compute"
          /\ stats'.misses = stats.misses + 1
          /\ stats'.hits = stats.hits
          /\ kv' = kv]_vars

\* C9 witness: a fetch of a key that holds no value ran a throwing query and
\* raised its error; it was the second fetch to be counted as a miss.
C9_Witness ==
    /\ ret.op = "fetch" /\ ret.readOk /\ ret.counted = "miss"
    /\ ret.query = QueryThrows /\ ret.raised /\ ret.err = "compute"
    /\ stats.misses = 2

\* C10 (as claimed): a call during which establishing the connection failed
\* raises the connection failure, read and write operations included.
C10_ConnectFailurePropagates ==
    ret.connFailed => (ret.raised /\ ret.err = "connect")

\* C10 (amended): the connection failure is raised by connect() and ping(); the
\* operations of the key-value surface absorb it and return their safe default.
C10_ConnectFailureSurfaces ==
    ret.connFailed =>
        /\ ret.op \in {"connect", "ping"} => (ret.raised /\ ret.err = "connect")
        /\ ret.op \in KvSurface => (~ret.raised /\ ret.value = SafeDefault(ret.op))

\* C10 witness: ping() was called on a client that had been connected and lost
\* the connection, the new attempt failed, and ping raised it.
C10_Witness ==
    /\ ret.op = "ping" /\ ret.connFailed /\ ret.raised /\ ret.err = "connect"
    /\ clock >= 1


\* C11 (as claimed): at most one attempt of this._client.connect() is in flight;
\* a connect() call made while an attempt is in flight starts no second one and,
\* unless the client is connected, ends as that attempt does; a call made while
\* connected starts none.  Under every interleaving of connect(), disconnect()
\* and the 'ready' and 'end' events.
C11_MemoizedConnect ==
    /\ Cardinality(Pending) <= 1
    /\ \A p \in Callers :
          /\ conncall[p].sawPending # "null" => ~conncall[p].started
          /\ conncall[p].sawConnected => ~conncall[p].started
          /\ (conncall[p].sawPending # "null" /\ ~conncall[p].sawConnected
                /\ conncall[p].pc = "done") =>
                /\ conncall[p].awaits = conncall[p].sawPending
                /\ conncall[p].outcome = attempt[conncall[p].sawPending]


\* C12: with the store available throughout the window, call number n of the
\* simple counter limiter in one fixed window (the life of the counter key)
\* returns true iff n > limit; and a call changes the expiry of the key only when
\* its post-increment value is 1.
C12_SimpleCounterRule ==
    (simple.op = "simple" /\ simple.mode = "store") =>
        /\ simple.clean => (~simple.raised /\ simple.limited = (simple.n > simple.limit))
        /\ simple.expireSet => simple.value = 1

\* C12 witness: with limit 2, the third call inside the window of the first,
\* a second after it, was limited and left the expiry of the first call in place.
C12_Witness ==
    /\ simple.op = "simple" /\ simple.mode = "store" /\ simple.clean
    /\ simple.limit = 2 /\ simple.n = 3 /\ simple.limited /\ ~simple.expireSet
    /\ clock = 1
    /\ \E i \in Identifiers : kv[prefixKey(SimpleKey(i))].expireAt = 2

\* C13: a call of the simple counter limiter during which connecting, INCR or
\* EXPIRE failed does not raise and returns false.
C13_SimpleFailsOpen ==
    (simple.op = "simple" /\ simple.mode = "store" /\ simple.failed # "none") =>
        (~simple.raised /\ ~simple.limited)

\* C13 witness: EXPIRE failed on the first call of a window: the call returned
\* false and left a counter of 1 without expiry.
C13_Witness ==
    /\ simple.op = "simple" /\ simple.failed = "expire"
    /\ ~simple.raised /\ ~simple.limited /\ simple.value = 1
    /\ \E i \in Identifiers :
          /\ kv[prefixKey(SimpleKey(i))].exists
          /\ kv[prefixKey(SimpleKey(i))].expireAt = -1


\* The keys of `keys` that match prefix + pattern.
Matching(keys, pattern) == {k \in keys : GlobMatch(prefixChars(prefix, pattern), k)}

\* C14: when invalidatePattern(pattern) has completed without a store error,
\* with no other writer, the keys that matched prefix + pattern at the start are
\* gone, the others are all still there, and the number returned is the number of
\* keys removed, however the store split the scan into batches.
C14_PatternInvalidationExact ==
    (scan.pc = "done" /\ ~scan.failed) =>
        /\ keyspace = scan.start \ Matching(scan.start, scan.pattern)
        /\ scan.ret = Cardinality(Matching(scan.start, scan.pattern))
        /\ scan.ret = Cardinality(scan.start \ keyspace)

\* C14 witness: 'user:*' over user:1, user:2 and order:1 of the namespace removed
\* the two user keys in two or more rounds, kept order:1 and returned 2.
C14_Witness ==
    /\ scan.pc = "done" /\ ~scan.failed /\ scan.op = "invalidatePattern"
    /\ prefix = NsPlain /\ scan.pattern = <<"u", "s", "e", "r", ":", "*">>
    /\ {NsPlain \o User1, NsPlain \o User2, NsPlain \o Order1} \subseteq scan.start
    /\ NsPlain \o Order1 \in keyspace
    /\ NsPlain \o User1 \notin keyspace /\ NsPlain \o User2 \notin keyspace
    /\ scan.ret = 2 /\ scan.rounds >= 2


\* C16 (as claimed): every key that invalidatePattern or flushPrefix has deleted
\* begins with the prefix the client was constructed with.
C16_NamespaceConfinement ==
    \A k \in scan.start \ keyspace : StartsWith(k, prefix)


\* C15: getStats reports the number h of fetch calls that found the key (a live
\* value or the tombstone) and the number m of those that did not, since
\* construction or the last resetStats, with hitRate = h / (h + m), or 0 when
\* h + m = 0; after resetStats both counters are 0.
C15_StatisticsAccounting ==
    /\ ret.op = "getStats" =>
          /\ ret.value[1] = "stats"
          /\ ret.value[2] = tally.h
          /\ ret.value[3] = tally.m
          /\ ret.value[5] > 0
          /\ IF tally.h + tally.m = 0 THEN ret.value[4] = 0
             ELSE ret.value[4] * (tally.h + tally.m) = tally.h * ret.value[5]
    /\ ret.op = "resetStats" => (stats.hits = 0 /\ stats.misses = 0)

\* C15 witness: getStats after one hit and one miss reported hits = 1,
\* misses = 1 and a hitRate of one half.
C15_Witness ==
    /\ ret.op = "getStats"
    /\ tally.h = 1 /\ tally.m = 1
    /\ ret.value[2] = 1 /\ ret.value[3] = 1 /\ 2 * ret.value[4] = ret.value[5]


\* C17 (as claimed): a get or a fetch that reads a key while it holds the
\* soft-delete tombstone does not raise and returns null.
C17_TombstoneReadsAbsent ==
    (ret.op \in {"get", "fetch"} /\ ret.readOk /\ ret.tomb = "live") =>
        (~ret.raised /\ ret.value = Null)


\* C18 (as claimed): whatever calls of the local tracker came before, with
\* whatever configs, and whichever of them ran the housekeeping sweep, a call
\* returns the success and the remaining it returns when no sweep ever runs.
C18_SweepIsDecisionNeutral ==
    lread.op = "check" =>
        /\ lread.success = shadow.result.success
        /\ lread.remaining = shadow.result.remaining

\* The timestamps stored for the key of the last read are all newer than the
\* start of the window of that read.
ReadKeyIsFresh ==
    \A i \in DOMAIN MapGetOrEmpty(rateLimitStore, lread.key) :
        MapGetOrEmpty(rateLimitStore, lread.key)[i] > lread.now - lread.window

\* C19 (as claimed): after the local tracker's check, the in-memory simple
\* limiter or getRemaining has read a key's timestamps, the sequence stored for
\* the key holds only timestamps > now - window.
C19_LocalWindowInvariant ==
    lread.op \in {"check", "checkSimple", "getRemaining"} => ReadKeyIsFresh

\* C19 (amended): the same after the local tracker's check and after a call of
\* the in-memory simple limiter that was not limited, the calls that store the
\* filtered sequence back.
C19_LocalWindowAfterWrite ==
    (lread.op = "check" \/ (lread.op = "checkSimple" /\ lread.success)) => ReadKeyIsFresh

\* C19 witness: a check found one timestamp that had left the window and one
\* that had not, dropped the first and stored the second with its own.
C19_Witness ==
    /\ lread.op = "check" /\ lread.dropped >= 1 /\ lread.success
    /\ Len(MapGetOrEmpty(rateLimitStore, lread.key)) = 2


\* The value, neither null nor the tombstone, whose JSON text the key holds.
HeldValues(key) ==
    {e[1] : e \in {x \in JSONTable : /\ kv[prefixKey(key)].exists
                                     /\ x[2] = kv[prefixKey(key)].data
                                     /\ x[1] # Null
                                     /\ x[1] # Str(DELETED)}}

\* C20: a fetch that reads a key holding a live value other than the tombstone
\* returns that value, adds one to hits and nothing to misses, does not invoke
\* the query and leaves the store as it was.
C20_HitLeavesCacheUntouched ==
    [][(stats' # stats /\ ret'.op = "fetch" /\ ret'.readOk) =>
          \A v \in HeldValues(ret'.key) :
              /\ ~ret'.raised
              /\ ret'.value = v
              /\ stats'.hits = stats.hits + 1
              /\ stats'.misses = stats.misses
              /\ ~ret'.computed
              /\ kv' = kv]_vars

\* C20 witness: a fetch with a query that throws, a second or more after the
\* value was stored, returned the stored value as a hit without running the query.
C20_Witness ==
    /\ ret.op = "fetch" /\ ret.readOk /\ ret.counted = "hit"
    /\ ret.value = Str("v1") /\ ret.query = QueryThrows /\ ~ret.raised
    /\ clock >= 1
    /\ \E k \in CacheKeys : kv[prefixKey(k)].exists /\ kv[prefixKey(k)].data = "\"v1\""


\* C21: a rejected call returns reset = now + window; and when the call before
\* this one was for the same identifier and config and was rejected, and this one
\* is made at a time >= the reset it returned, this one is admitted, whichever of
\* the store and the local tracker decided either call.
C21_ResetIsUpperBound ==
    [][(ncalls' = ncalls + 1) =>
          /\ (~last'.raised /\ ~last'.result.success) =>
                last'.result.reset = last'.now + last'.config.window
          /\ (/\ last.op = "rateLimit" /\ ~last.raised /\ ~last.result.success
              /\ last'.identifier = last.identifier /\ last'.config = last.config
              /\ last'.now >= last.result.reset) =>
                (~last'.raised /\ last'.result.success)]_vars

\* C21 witness: three calls for the config with limit 1 and window 1, in one
\* mode: admitted at 0, rejected at 0 with reset 1, admitted at 1.
C21_Witness ==
    \E c \in Configs, i \in Identifiers, m \in Modes :
        /\ c.limit = 1 /\ c.window = 1
        /\ ncalls = 3
        /\ admitted[m][RateLimitKey(c, i)] = <<0, 1>>
        /\ \A m2 \in Modes, k \in LimitKeys :
              (m2 # m \/ k # RateLimitKey(c, i)) => admitted[m2][k] = <<>>
        /\ last.mode = m /\ last.config = c /\ last.now = 1 /\ last.result.success

\* A step of fetch: the count of fetch calls kept apart from stats went up.
FetchStep == tally'.h + tally'.m = tally.h + tally.m + 1

\* C22: hits and misses decrease only through resetStats; they change only in a
\* fetch, which adds exactly one to exactly one of them (to misses when the
\* lookup could not read the store), or in resetStats; get, set, store, remove,
\* invalidatePattern and the calls of the limiters leave both as they were.
C22_StatisticsFrame ==
    [][/\ (stats'.hits < stats.hits \/ stats'.misses < stats.misses) =>
              (ret'.op = "resetStats" /\ stats' = resetStats)
       /\ stats' # stats => (FetchStep \/ ret'.op = "resetStats")
       /\ FetchStep =>
              /\ ret'.op = "fetch"
              /\ \/ stats' = [stats EXCEPT !.hits = @ + 1]
                 \/ stats' = [stats EXCEPT !.misses = @ + 1]
              /\ ~ret'.readOk => stats' = [stats EXCEPT !.misses = @ + 1]
       /\ ret'.op \in {"get", "set", "store", "remove", "removeSoft"} => stats' = stats
       /\ (ncalls' # ncalls \/ last' # last \/ simple' # simple) => stats' = stats
       /\ (scan' # scan \/ keyspace' # keyspace) => stats' = stats]_vars

\* C22 witness: after one hit and one miss were counted, invalidatePattern
\* removed a key and a store after it ended, with both counters still at 1.
C22_Witness ==
    /\ stats = [hits |-> 1, misses |-> 1]
    /\ scan.pc = "done" /\ scan.op = "invalidatePattern" /\ scan.ret = 1 /\ keyspace = {}
    /\ ret.op = "store" /\ ret.value = Str("OK")

\* C23 (as claimed): after any sequence of calls of the simple counter limiter,
\* a failed store command between INCR and EXPIRE included, every counter key
\* that holds a value >= 1 carries an expiry.
C23_SimpleCounterAlwaysExpires ==
    \A i \in Identifiers :
        LET entry == kv[prefixKey(SimpleKey(i))]
        IN  (entry.exists /\ IsIntText(entry.data) /\ TextInt(entry.data) >= 1) =>
                entry.expireAt # -1

\* C24 (as claimed): for the same calls at the same seconds, for one identifier
\* and config, from empty state and with a store that never fails, the store and
\* the local tracker return the same success and the same remaining on every
\* call, the calls after a rejected call included.
C24_ModeEquivalence ==
    (last.op = "rateLimit" /\ lread.op = "check") =>
        /\ last.result.success = lread.success
        /\ last.result.remaining = lread.remaining

C26_GetRemainingAgreesWithCheck ==
    [][(/\ lread'.op = "getRemaining" /\ lread'.n = ncalls' /\ ncalls' = ncalls + 1
        /\ ~(lread.op = "getRemaining" /\ lread.n = ncalls)
        /\ last.op = "rateLimit" /\ ~last.raised /\ last.result.success
        /\ lread'.key = RateLimitKey(last.config, last.identifier)
        /\ last.now = clock
        /\ \/ lread'.client = NullClient /\ ~last.useRedis
           \/ lread'.client = TheClient /\ last.useRedis /\ ~last.txFailed /\ isConnected) =>
          /\ lread'.value = Num(last.result.remaining)
          /\ UNCHANGED <<zsets, zexpire, rateLimitStore, kv>>]_vars

\* C27 (as claimed): in every outcome of invalidatePattern, a store error after
\* earlier batches were deleted included, the number returned is the number of
\* keys the call removed from the store.
C27_InvalidationCountTruthful ==
    scan.pc = "done" => scan.ret = Cardinality(scan.start \ keyspace)
====
